---- MODULE Spec2Model ----
(***************************************************************************)
(* A model of schema_design/unified_Personnel.py: the personnel            *)
(* unification pipeline (record unifier, matcher, merger, relationship     *)
(* remap and relationship merge) as main() runs it; and, at the end, of    *)
(* schema_design/unified_Companies.py: the company unification as          *)
(* unify_companies() runs it.                                              *)
(*                                                                         *)
(* JSON values are tagged records [k, w, n]:                               *)
(*   k = "null"                the JSON null / Python None                 *)
(*   k = "int",  n = value     a JSON number                               *)
(*   k = "bool", n = 0 or 1    a JSON boolean                              *)
(*   k = "str",  w = tokens    a string, as its whitespace-separated       *)
(*               n = 1         tokens; n = 1 says the string carries       *)
(*                             leading/trailing whitespace (so w = <<>>,   *)
(*                             n = 1 is a blank string and w = <<>>, n = 0 *)
(*                             is the empty string "")                     *)
(***************************************************************************)
EXTENDS Integers, Sequences, FiniteSets, TLC

VARIABLES
    pc,                         \* where main() is
    source,                     \* index into sources of the source being loaded
    all_personnel_records,      \* candidates, in load order
    all_company_relationships,  \* relationship records, in load order
    match_groups,               \* find_matches' result
    final_personnel,            \* one merged record per group
    old_to_new_person_id,       \* set of <<old id, new id>> pairs (a dict)
    final_company_relationships,\* merge_company_relationships' result
    next_uuid,                  \* the next value uuid.uuid4() hands out
    raw_data,                   \* the raw records read so far, << source name, record >>
    files,                      \* the files under base_dir: which configuration
                                \* documents exist, and the raw records of each source
    config,                     \* where main()'s config came from
    personnel_df,               \* the person table as saved
    companies_df,               \* the relationship table as saved
    extraction,                 \* a function called on its own: << >>, a call of
                                \* safe_get_value [record, path, result] or of
                                \* clean_job_title [title, cleaned]
    unification,                \* a run of unify_companies (unified_Companies.py):
                                \* << >> or the record of its locals
    G                           \* find_matches' graph while its pairs are evaluated
                                \* one at a time: << >> or [records, edges, evaluated]

vars == << pc, source, all_personnel_records, all_company_relationships,
           match_groups, final_personnel, old_to_new_person_id,
           final_company_relationships, next_uuid, raw_data,
           files, config, personnel_df, companies_df, extraction, unification, G >>

(***************************************************************************)
(* Bounds of the model.                                                    *)
(***************************************************************************)
\* raw records main() reads in one run
MaxRecords == 3
\* candidates handed to find_matches in SpecMatch
MaxCands == 3
\* members of the identity group merged in SpecMerge
MaxGroup == 2

(***************************************************************************)
(* JSON values and Python's view of them.                                  *)
(***************************************************************************)
JNull == [k |-> "null", w |-> <<>>, n |-> 0]
JInt(i) == [k |-> "int", w |-> <<>>, n |-> i]
JBool(b) == [k |-> "bool", w |-> <<>>, n |-> IF b THEN 1 ELSE 0]
JStr(tokens) == [k |-> "str", w |-> tokens, n |-> 0]
JPadded(tokens) == [k |-> "str", w |-> tokens, n |-> 1]

\* bool(v): None, 0, False and "" are falsy; a blank string "  " is truthy.
Truthy(v) ==
    CASE v.k = "null" -> FALSE
      [] v.k = "int"  -> v.n # 0
      [] v.k = "bool" -> v.n = 1
      [] v.k = "str"  -> v.w # <<>> \/ v.n = 1

Digits == << "0", "1", "2", "3", "4", "5", "6", "7", "8", "9" >>

\* str(v) for the values an identifier can hold (numbers below ten print as
\* one digit; a string prints as itself).
PyStr(v) ==
    CASE v.k = "int"  -> JStr(<< Digits[v.n + 1] >>)
      [] v.k = "bool" -> JStr(<< IF v.n = 1 THEN "True" ELSE "False" >>)
      [] v.k = "null" -> JStr(<< "None" >>)
      [] v.k = "str"  -> v

\* s.strip()
Strip(v) == [v EXCEPT !.n = 0]

(***************************************************************************)
(* sources, in the order main() loads them, and Python's string order on   *)
(* their names (sorted() compares them as strings).                        *)
(***************************************************************************)
sources == << "ColourcoatsBigin", "MetaliaBigin", "Rolodex" >>

SourceNames == { sources[i] : i \in 1..Len(sources) }

\* "ColourcoatsBigin" < "MetaliaBigin" < "Rolodex" as Python strings.
AlphaRank(name) ==
    CASE name = "ColourcoatsBigin" -> 1
      [] name = "MetaliaBigin"     -> 2
      [] name = "Rolodex"          -> 3
      [] OTHER                     -> 0

(***************************************************************************)
(* Sequence helpers.                                                       *)
(***************************************************************************)
Range(s) == { s[i] : i \in 1..Len(s) }

\* The element of a one-element set.  { Body(x) : x \in { e } } is how the
\* model names an intermediate value x (a local variable of the code) that
\* is computed once and used several times.
Only(S) == CHOOSE x \in S : TRUE

RECURSIVE SelectTruthy(_)
\* [v for v in items if v]
SelectTruthy(items) ==
    IF items = <<>> THEN <<>>
    ELSE IF Truthy(Head(items))
         THEN << Head(items) >> \o SelectTruthy(Tail(items))
         ELSE SelectTruthy(Tail(items))

(***************************************************************************)
(* The field mapping (mapper/unified_Personnel_mapper.json, "columns").    *)
(* The file is not part of the sources; its shape is the one the spec's    *)
(* FieldMapping gives: per output field a type and, per source, a path, a  *)
(* "system generated" sentinel, or null.  Here every sourced field is read *)
(* from the key of the same name.                                          *)
(***************************************************************************)
ScalarFields == { "rolodex_id", "first_name", "last_name", "full_name",
                  "title", "email", "mobile", "city", "country" }

ArrayFields == { "all_emails", "all_phones" }

GeneratedFields == { "person_id", "data_source" }

personnel_mappings ==
    [ f \in ScalarFields \cup ArrayFields \cup GeneratedFields |->
        [ type |-> IF f \in ArrayFields THEN "array" ELSE "string",
          path |-> IF f \in GeneratedFields THEN "system generated" ELSE f ] ]

(***************************************************************************)
(* safe_get_value for the two path shapes the mapping above uses: a plain  *)
(* key (scalar fields) and a wildcard projection key[*] (array fields).    *)
(***************************************************************************)
\* return current if current not in [None, '', []] else None
safe_get_value(record, path) ==
    LET current == record[path]
    IN  IF current = JNull \/ current = JStr(<<>>) THEN JNull ELSE current

\* results = [val for val in current if val]; return results if results else None
\* (None is the empty list here: create_unified_record turns None into [])
safe_get_values(record, path) == SelectTruthy(record[path])

(***************************************************************************)
(* safe_get_value on nested documents and on every path form.  Beside the  *)
(* scalars above a value is a list [k |-> "list", items] or a map          *)
(* [k |-> "map", m] with m a function from keys to values.  A path is the  *)
(* parsed form of the path string:                                         *)
(*   [kind |-> "plain", segs]         'a.b[0].c': one seg per dot-part,    *)
(*                                    [key, index] with index NoIndex for  *)
(*                                    'a', n for 'a[n]' ('[n]' has key ""),*)
(*                                    BadIndex for 'a[x]'                  *)
(*   [kind |-> "wild", base, field]   'a.b[*].c': base the keys before     *)
(*                                    [*], field the path after it (the    *)
(*                                    empty path when nothing follows)     *)
(*   [kind |-> "split", base, index]  "a.b.split(', ')[n]": base the path  *)
(*                                    before .split; index BadIndex when   *)
(*                                    the text after .split is not         *)
(*                                    (', ')[n]                            *)
(*   [kind |-> "empty"]               the empty path string                *)
(* A string that is split is held as its pieces and the delimiters between *)
(* them: 'Mumbai, India' is << "Mumbai", ", ", "India" >>.                 *)
(***************************************************************************)
JList(items) == [ k |-> "list", items |-> items ]
JMap(m) == [ k |-> "map", m |-> m ]

NoIndex == -1
BadIndex == -2

Key(name) == [ key |-> name, index |-> NoIndex ]
At(name, i) == [ key |-> name, index |-> i ]
PlainPath(segs) == [ kind |-> "plain", segs |-> segs ]
WildPath(base, field) == [ kind |-> "wild", base |-> base, field |-> field ]
SplitPath(base, index) == [ kind |-> "split", base |-> base, index |-> index ]
EmptyPath == [ kind |-> "empty" ]

\* bool(v) for every value: an empty list and an empty map are falsy too.
DocTruthy(v) ==
    CASE v.k = "list" -> v.items # <<>>
      [] v.k = "map"  -> DOMAIN v.m # {}
      [] OTHER        -> Truthy(v)

NotFound == [ found |-> FALSE, value |-> JNull ]

\* current[part] when current is a map that has the key
Lookup(current, name) ==
    IF current.k = "map" /\ name \in DOMAIN current.m
    THEN [ found |-> TRUE, value |-> current.m[name] ]
    ELSE NotFound

\* "Standard path navigation": the loop over path.split('.')
RECURSIVE Navigate(_, _)
Navigate(current, segs) ==
    IF segs = <<>> THEN [ found |-> TRUE, value |-> current ]
    ELSE LET seg == Head(segs)
             based == IF seg.index # NoIndex /\ seg.key = ""
                      THEN [ found |-> TRUE, value |-> current ]
                      ELSE Lookup(current, seg.key)
         IN  IF ~based.found THEN NotFound
             ELSE IF seg.index = NoIndex THEN Navigate(based.value, Tail(segs))
             ELSE IF seg.index = BadIndex THEN NotFound
             ELSE IF based.value.k = "list" /\ seg.index < Len(based.value.items)
                  THEN Navigate(based.value.items[seg.index + 1], Tail(segs))
                  ELSE NotFound

\* The base array of a wildcard path: plain keys only.
RECURSIVE NavigateKeys(_, _)
NavigateKeys(current, keys) ==
    IF keys = <<>> THEN [ found |-> TRUE, value |-> current ]
    ELSE LET step == Lookup(current, Head(keys))
         IN  IF step.found THEN NavigateKeys(step.value, Tail(keys)) ELSE NotFound

\* str(value).split(', ') on the pieces-and-delimiters form
RECURSIVE SplitCommaSpace(_)
SplitCommaSpace(w) ==
    IF \E i \in 1..Len(w) : w[i] = ", "
    THEN LET i == CHOOSE i \in 1..Len(w) :
                     w[i] = ", " /\ \A j \in 1..(i - 1) : w[j] # ", "
         IN  << SubSeq(w, 1, i - 1) >> \o SplitCommaSpace(SubSeq(w, i + 1, Len(w)))
    ELSE << w >>

\* return current if current not in [None, '', []] else None
EmptyAsNone(current) ==
    IF current.k = "null" THEN JNull
    ELSE IF current.k = "str" /\ current.w = <<>> /\ current.n = 0 THEN JNull
    ELSE IF current.k = "list" /\ current.items = <<>> THEN JNull
    ELSE current

\* safe_get_value
RECURSIVE safe_get_value_at(_, _)
RECURSIVE CollectWild(_, _)
\* for item in current: val = ...; if val: results.append(val)
CollectWild(items, field_path) ==
    IF items = <<>> THEN <<>>
    ELSE Only({ (IF DocTruthy(val) THEN << val >> ELSE <<>>)
                \o CollectWild(Tail(items), field_path) :
                val \in { IF field_path.kind # "empty"
                          THEN safe_get_value_at(Head(items), field_path)
                          ELSE Head(items) } })

safe_get_value_at(record, path) ==
    IF path.kind = "empty" \/ ~DocTruthy(record) THEN JNull
    ELSE IF path.kind = "wild"
    THEN Only({ IF ~current.found THEN JNull
                ELSE IF current.value.k # "list" THEN JNull
                ELSE Only({ IF results # <<>> THEN JList(results) ELSE JNull :
                            results \in { CollectWild(current.value.items, path.field) } }) :
                current \in { NavigateKeys(record, path.base) } })
    ELSE IF path.kind = "split"
    THEN Only({ IF value.k = "null" THEN JNull
                \* no match: the navigation below looks up a key 'split(...)'
                ELSE IF path.index = BadIndex THEN JNull
                ELSE Only({ IF Len(parts) > path.index
                            THEN JStr(parts[path.index + 1]) ELSE JNull :
                            parts \in { SplitCommaSpace(PyStr(value).w) } }) :
                value \in { safe_get_value_at(record, path.base) } })
    ELSE Only({ IF current.found THEN EmptyAsNone(current.value) ELSE JNull :
                current \in { Navigate(record, path.segs) } })

(***************************************************************************)
(* load_config's built-in configuration.  Only the patterns that can occur *)
(* in the model's names are listed per category, in the code's order.      *)
(***************************************************************************)
NameTokens == { "Ar.", "Mr", "Rohan", "Shah", "Mark" }

Lower(t) ==
    CASE t = "Ar."   -> "ar."
      [] t = "Mr"    -> "mr"
      [] t = "Rohan" -> "rohan"
      [] t = "Shah"  -> "shah"
      [] t = "Mark"  -> "mark"
      [] t = "India" -> "india"
      [] t = "None"  -> "none"
      [] t = "Acme"  -> "acme"
      [] t = "Ltd"   -> "ltd"
      [] t = "Works" -> "works"
      [] t = "Z"     -> "z"
      [] OTHER       -> t

title_prefixes ==
    << [ patterns |-> << "ar", "ar.", "arc", "arc.", "arch", "arch.", "architect" >>,
         title |-> "Architect" ],
       [ patterns |-> << "id", "id.", "interior", "designer" >>,
         title |-> "Interior Designer" ],
       [ patterns |-> << "cl", "cl.", "client" >>, title |-> "Client" ],
       [ patterns |-> << "dr", "dr.", "doctor" >>, title |-> "Doctor" ],
       [ patterns |-> << "ca", "ca.", "chartered accountant" >>,
         title |-> "Chartered Accountant" ] >>

honorifics_to_remove == << "mr", "mr.", "mrs", "mrs.", "ms", "ms." >>

\* pattern in token, as Python's substring test, for the lower-cased tokens
\* of NameTokens.
IsSubstring(pattern, token) ==
    \/ pattern = token
    \/ << pattern, token >> \in { << "ar", "ar." >>, << "ar", "mark" >> }

\* All (category, pattern) pairs in iteration order, flattened.
RECURSIVE FlatPatterns(_)
FlatPatterns(cats) ==
    IF cats = <<>> THEN <<>>
    ELSE [ i \in 1..Len(Head(cats).patterns) |->
             [ pattern |-> Head(cats).patterns[i], title |-> Head(cats).title ] ]
         \o FlatPatterns(Tail(cats))

\* for category, data in title_prefixes.items(): for pattern in patterns
title_patterns == FlatPatterns(title_prefixes)

\* The least index of hits (where a loop over a sequence stops at its first
\* hit), or 0 when there is none.
FirstIndex(hits) ==
    IF hits = {} THEN 0 ELSE CHOOSE i \in hits : \A j \in hits : i <= j

\* clean_name_and_extract_title: << clean name tokens, title or JNull >>.
\* re.match(rf'^{pattern}\s+', name, re.IGNORECASE) on a stripped name holds
\* iff its first token is the pattern and another token follows.
clean_name_and_extract_title(name) ==
    IF ~Truthy(name) \/ name.k # "str" THEN << <<>>, JNull >>
    ELSE IF Strip(name).w = <<>> THEN << <<>>, JNull >>
    ELSE
      LET w == Strip(name).w
          first == IF Len(w) >= 2 THEN Lower(w[1]) ELSE ""
      IN  Only({ IF hit # 0 THEN << Tail(w), JStr(<< title_patterns[hit].title >>) >>
                 ELSE IF \E i \in 1..Len(honorifics_to_remove) :
                            Len(w) >= 2 /\ honorifics_to_remove[i] = first
                 THEN << Tail(w), JNull >>
                 ELSE << w, JNull >> :
                 hit \in { FirstIndex({ i \in 1..Len(title_patterns) :
                              Len(w) >= 2 /\ title_patterns[i].pattern = first }) } })

\* process_names: [first_name, last_name, full_name, inferred_title]
\* The second half of process_names: the names built from first_name and
\* last_name, cf and cl being what clean_name_and_extract_title made of them.
NamesFromParts(cf, cl) ==
    LET fn == IF cf[1] # <<>> THEN JStr(cf[1]) ELSE JNull
        ln == IF cl[1] # <<>> THEN JStr(cl[1]) ELSE JNull
    IN  [ first_name |-> fn,
          last_name |-> ln,
          full_name |-> IF fn # JNull /\ ln # JNull THEN JStr(fn.w \o ln.w)
                        ELSE IF fn # JNull THEN fn
                        ELSE ln,
          inferred_title |-> IF Truthy(cf[2]) THEN cf[2] ELSE cl[2] ]

process_names(first_name, last_name, full_name) ==
    Only({ IF fromFull[1] # <<>>
           THEN [ first_name |-> JStr(<< fromFull[1][1] >>),
                  last_name |-> IF Len(fromFull[1]) >= 2
                                THEN JStr(Tail(fromFull[1])) ELSE JNull,
                  full_name |-> JStr(fromFull[1]),
                  inferred_title |-> fromFull[2] ]
           ELSE Only({ NamesFromParts(cf, cl) :
                       cf \in { clean_name_and_extract_title(first_name) },
                       cl \in { clean_name_and_extract_title(last_name) } }) :
           fromFull \in { IF Truthy(full_name) /\ Strip(PyStr(full_name)).w # <<>>
                          THEN clean_name_and_extract_title(full_name)
                          ELSE << <<>>, JNull >> } })

\* is_valid_person_record with all([...]) for any([...])
is_valid_person_record_all(first_name, last_name, full_name) ==
    \A v \in { first_name, last_name, full_name } :
        Truthy(v) /\ Strip(PyStr(v)).w # <<>>

\* is_valid_person_record: any of the three is truthy and non-blank
is_valid_person_record(first_name, last_name, full_name) ==
    \E v \in { first_name, last_name, full_name } :
        Truthy(v) /\ Strip(PyStr(v)).w # <<>>

(***************************************************************************)
(* Strings built from source names: 'A+B' is the token sequence            *)
(* << "A", "+", "B" >>.                                                    *)
(***************************************************************************)
\* '+'.join(names)
RECURSIVE PlusJoin(_)
PlusJoin(names) ==
    IF names = <<>> THEN <<>>
    ELSE IF Len(names) = 1 THEN Head(names)
    ELSE Head(names) \o << "+" >> \o PlusJoin(Tail(names))

\* s.split('+'), as the sequence of pieces (each piece a token sequence)
RECURSIVE PlusSplit(_)
PlusSplit(s) ==
    IF \E i \in 1..Len(s) : s[i] = "+"
    THEN LET i == CHOOSE i \in 1..Len(s) :
                     s[i] = "+" /\ \A j \in 1..(i - 1) : s[j] # "+"
         IN  << SubSeq(s, 1, i - 1) >> \o PlusSplit(SubSeq(s, i + 1, Len(s)))
    ELSE << s >>

\* Python's < on two such strings: '+' sorts before every letter, and a
\* proper prefix sorts first.
RECURSIVE StrLess(_, _)
StrLess(a, b) ==
    IF a = <<>> THEN b # <<>>
    ELSE IF b = <<>> THEN FALSE
    ELSE IF Head(a) = Head(b) THEN StrLess(Tail(a), Tail(b))
    ELSE AlphaRank(Head(a)) < AlphaRank(Head(b))

\* sorted(S, reverse=True)
RECURSIVE SortedStrings_reversed(_)
SortedStrings_reversed(S) ==
    IF S = {} THEN <<>>
    ELSE LET m == CHOOSE x \in S : \A y \in S \ {x} : StrLess(y, x)
         IN  << m >> \o SortedStrings_reversed(S \ {m})

\* sorted(S) for a set S of such strings
RECURSIVE SortedStrings(_)
SortedStrings(S) ==
    IF S = {} THEN <<>>
    ELSE LET m == CHOOSE x \in S : \A y \in S \ {x} : StrLess(x, y)
         IN  << m >> \o SortedStrings(S \ {m})

(***************************************************************************)
(* The phone library (phonenumbers), as the table of what it answers for   *)
(* the numbers and regions of the model.                                   *)
(***************************************************************************)
\* country_code_map.get(country.lower().strip(), default_country) for a
\* one-word country name
country_code_map(country) ==
    CASE Lower(country) = "india"     -> "IN"
      [] Lower(country) = "canada"    -> "CA"
      [] Lower(country) = "australia" -> "AU"
      [] OTHER                        -> "IN"

\* parse + is_valid_number + format_number(E164); JNull when invalid or
\* when parse raises NumberParseException
phonenumbers_e164(phone, region) ==
    IF phone = << "9876543210" >> /\ region = "IN" THEN JStr(<< "+919876543210" >>)
    ELSE IF phone = << "+919876543210" >> THEN JStr(<< "+919876543210" >>)
    ELSE JNull

\* normalize_phone: [raised, value].  country.lower() raises AttributeError
\* when country is truthy and not a string.
normalize_phone(phone, country) ==
    IF ~Truthy(phone) THEN [ raised |-> FALSE, value |-> JNull ]
    ELSE IF Strip(PyStr(phone)).w = <<>> THEN [ raised |-> FALSE, value |-> JNull ]
    ELSE IF Truthy(country) /\ country.k # "str"
         THEN [ raised |-> TRUE, value |-> JNull ]
    ELSE LET region == IF Truthy(country) /\ Strip(country).w # <<>>
                       THEN country_code_map(Strip(country).w[1])
                       ELSE "IN"
         IN  [ raised |-> FALSE,
               value |-> phonenumbers_e164(Strip(PyStr(phone)).w, region) ]

(***************************************************************************)
(* Titles.                                                                 *)
(***************************************************************************)
\* infer_title_from_name: the explicit title when it is non-blank, else the
\* title of the first pattern that occurs in the lower-cased name.
infer_title_from_name(name, current_title) ==
    IF Truthy(current_title) /\ Strip(PyStr(current_title)).w # <<>>
    THEN current_title
    ELSE IF name = <<>> THEN JNull
    ELSE Only({ IF hit # 0 THEN JStr(<< title_patterns[hit].title >>) ELSE JNull :
                hit \in { FirstIndex({ p \in 1..Len(title_patterns) :
                             \E i \in 1..Len(name) :
                               IsSubstring(title_patterns[p].pattern, Lower(name[i])) }) } })

\* clean_job_title on the tokens of a title: cut at ' at ' (an inner token
\* "at"), at '|' (a token "|"), drop parenthesised and bracketed tokens.
clean_job_title(title) ==
    IF ~Truthy(title) \/ title.k # "str" THEN JNull
    ELSE IF Strip(title).w = <<>> THEN JNull
    ELSE
      LET w == Strip(title).w
          IsAt(i) == w[i] = "at" /\ i > 1 /\ i < Len(w)
          cutAt == IF \E i \in 1..Len(w) : IsAt(i)
                   THEN SubSeq(w, 1, (CHOOSE i \in 1..Len(w) :
                            IsAt(i) /\ \A j \in 1..(i - 1) : ~IsAt(j)) - 1)
                   ELSE w
          cutBar == IF \E i \in 1..Len(cutAt) : cutAt[i] = "|"
                    THEN SubSeq(cutAt, 1, (CHOOSE i \in 1..Len(cutAt) :
                            cutAt[i] = "|" /\ \A j \in 1..(i - 1) : cutAt[j] # "|") - 1)
                    ELSE cutAt
          Kept(t) == t \notin { "(x)", "[x]" }
          rest == SelectSeq(cutBar, Kept)
      IN  IF rest = <<>> THEN JNull ELSE JStr(rest)

(***************************************************************************)
(* extract_company_relationships.  A raw record's 'companies' is           *)
(* [k, items]: k = "absent" (no key), "null" (key holds null) or "list";   *)
(* an item is [isMap, id, name, is_active, start_date, title].             *)
(* 'Account_Name' is [k, v, id]: k = "absent", "map" (a non-empty map with *)
(* name v and id) or "val" (any other value v, null included).             *)
(* Result: [raised, rels].  relationship_id is uuid.uuid4(), drawn from    *)
(* first_uuid on.                                                          *)
(***************************************************************************)
NewRel(rid, pid, cid, cname, active, start, title, src) ==
    [ relationship_id |-> rid, person_id |-> pid, company_id |-> cid,
      company_name |-> cname, is_active |-> active, start_date |-> start,
      title_at_company |-> title, data_source |-> << src >> ]

RECURSIVE RolodexRels(_, _, _)
RolodexRels(items, person_id, first_uuid) ==
    IF items = <<>> THEN <<>>
    ELSE LET c == Head(items)
         IN  IF Truthy(c.name) \/ Truthy(c.id)
             THEN << NewRel(first_uuid, person_id, c.id, c.name, c.is_active,
                            c.start_date, c.title, "Rolodex") >>
                  \o RolodexRels(Tail(items), person_id, first_uuid + 1)
             ELSE RolodexRels(Tail(items), person_id, first_uuid)

extract_company_relationships(raw_record, person_id, source_name, first_uuid) ==
    IF source_name = "Rolodex"
    THEN LET companies == raw_record.companies
         IN  IF companies.k = "null"
             THEN [ raised |-> TRUE, rels |-> <<>> ]     \* for company in None
             ELSE IF \E i \in 1..Len(companies.items) : ~companies.items[i].isMap
             THEN [ raised |-> TRUE, rels |-> <<>> ]     \* company.get on a non-map
             ELSE [ raised |-> FALSE,
                    rels |-> RolodexRels(companies.items, person_id, first_uuid) ]
    ELSE IF source_name \in { "ColourcoatsBigin", "MetaliaBigin" }
    THEN LET account_name == raw_record.Account_Name
             isDict == account_name.k = "map"
             company_name == IF account_name.k = "absent" THEN JNull ELSE account_name.v
             company_id == IF isDict THEN account_name.id ELSE JNull
         IN  IF account_name.k # "absent" /\ (isDict \/ Truthy(account_name.v))
                /\ (Truthy(company_name) \/ Truthy(company_id))
             THEN [ raised |-> FALSE,
                    rels |-> << NewRel(first_uuid, person_id, company_id, company_name,
                                       JNull, JNull, JNull, source_name) >> ]
             ELSE [ raised |-> FALSE, rels |-> <<>> ]
    ELSE [ raised |-> FALSE, rels |-> <<>> ]

(***************************************************************************)
(* create_unified_record.  Result: [status, person, rels] with status      *)
(* "ok" (a candidate and its relationships), "rejected" ((None, [])) or    *)
(* "raised" (an exception left the function).  uuid.uuid4() values are     *)
(* drawn from first_uuid on: the person_id first, then one per             *)
(* relationship.                                                           *)
(***************************************************************************)
RECURSIVE NormalizeAll(_, _)
\* [normalize_phone(p, country, config) for p in phones if p], as
\* [raised, values]
NormalizeAll(phones, country) ==
    IF phones = <<>> THEN [ raised |-> FALSE, values |-> <<>> ]
    ELSE LET rest == NormalizeAll(Tail(phones), country)
             one == normalize_phone(Head(phones), country)
         IN  IF ~Truthy(Head(phones)) THEN rest
             ELSE [ raised |-> one.raised \/ rest.raised,
                    values |-> << one.value >> \o rest.values ]

\* The field loop: person_id and data_source generated, every other field
\* extracted by its path.
ExtractFields(raw_record, source_name, first_uuid) ==
    [ f \in ScalarFields \cup ArrayFields \cup GeneratedFields |->
        IF f = "person_id" THEN first_uuid
        ELSE IF f = "data_source" THEN << source_name >>
        ELSE IF personnel_mappings[f].type = "array"
             THEN safe_get_values(raw_record, personnel_mappings[f].path)
             ELSE safe_get_value(raw_record, personnel_mappings[f].path) ]

\* "Process title" letting the title the name's prefix gives win over the
\* explicit one.
ProcessTitle_prefix_first(current_title, name_result) ==
    Only({ IF Truthy(title) THEN clean_job_title(title) ELSE title :
           title \in { IF Truthy(name_result.inferred_title)
                       THEN name_result.inferred_title
                       ELSE current_title } })

\* "Process title": the title after inference and cleaning.
ProcessTitle(current_title, name_result) ==
    LET combined_name == PyStr(name_result.first_name).w
                         \o PyStr(name_result.last_name).w
                         \o PyStr(name_result.full_name).w
    IN  Only({ IF Truthy(title) THEN clean_job_title(title) ELSE title :
               title \in { IF Truthy(name_result.inferred_title) /\ ~Truthy(current_title)
                           THEN name_result.inferred_title
                           ELSE Only({ IF Truthy(inferred_title) THEN inferred_title
                                       ELSE current_title :
                                       inferred_title \in
                                         { infer_title_from_name(combined_name,
                                                                 current_title) } }) } })

\* From "Validate record" on.
FinishRecord(raw_record, source_name, extracted, name_result, title) ==
    IF ~is_valid_person_record(name_result.first_name, name_result.last_name,
                               name_result.full_name)
    THEN [ status |-> "rejected", person |-> extracted, rels |-> <<>> ]
    ELSE
      Only({ IF mobile.raised \/ all_phones.raised \/ company_relationships.raised
             THEN [ status |-> "raised", person |-> extracted, rels |-> <<>> ]
             ELSE [ status |-> "ok",
                    person |-> [ extracted EXCEPT
                        !.first_name = name_result.first_name,
                        !.last_name = name_result.last_name,
                        !.full_name = name_result.full_name,
                        !.title = title,
                        !.mobile = mobile.value,
                        !.all_phones = SelectTruthy(all_phones.values),
                        !.all_emails =
                            IF Len(extracted.all_emails) > 1 THEN extracted.all_emails
                            ELSE IF Truthy(extracted.email) THEN << extracted.email >>
                            ELSE extracted.all_emails ],
                    rels |-> company_relationships.rels ] :
             mobile \in { IF Truthy(extracted.mobile)
                          THEN normalize_phone(extracted.mobile, extracted.country)
                          ELSE [ raised |-> FALSE, value |-> extracted.mobile ] },
             all_phones \in { NormalizeAll(extracted.all_phones, extracted.country) },
             company_relationships \in
               { extract_company_relationships(raw_record, extracted.person_id,
                                               source_name, extracted.person_id + 1) } })

create_unified_record(raw_record, source_name, first_uuid) ==
    Only({ Only({ FinishRecord(raw_record, source_name, extracted, name_result,
                               ProcessTitle(extracted.title, name_result)) :
                  name_result \in { process_names(extracted.first_name,
                                                  extracted.last_name,
                                                  extracted.full_name) } }) :
           extracted \in { ExtractFields(raw_record, source_name, first_uuid) } })

(***************************************************************************)
(* Matcher.                                                                *)
(***************************************************************************)
\* simple_person_match with a name fallback: records without an identifier
\* conflict as the code sees it are linked when their names are equal.
simple_person_match_name_fallback(rec1, rec2) ==
    \/ /\ Truthy(rec1.rolodex_id) /\ Truthy(rec2.rolodex_id)
       /\ PyStr(rec1.rolodex_id) = PyStr(rec2.rolodex_id)
    \/ /\ ~(Truthy(rec1.rolodex_id) /\ Truthy(rec2.rolodex_id))
       /\ rec1.full_name = rec2.full_name

\* simple_person_match with str() applied to the second identifier only:
\* the first one is compared as it is.
simple_person_match_one_sided(rec1, rec2) ==
    /\ Truthy(rec1.rolodex_id) /\ Truthy(rec2.rolodex_id)
    /\ rec1.rolodex_id = PyStr(rec2.rolodex_id)

\* simple_person_match
simple_person_match(rec1, rec2) ==
    LET rolodex_id1 == rec1.rolodex_id
        rolodex_id2 == rec2.rolodex_id
    IN  IF Truthy(rolodex_id1) /\ Truthy(rolodex_id2)
           /\ PyStr(rolodex_id1) # PyStr(rolodex_id2)
        THEN FALSE
        ELSE IF Truthy(rolodex_id1) /\ Truthy(rolodex_id2)
                /\ PyStr(rolodex_id1) = PyStr(rolodex_id2)
        THEN TRUE
        ELSE FALSE

\* find_matches comparing each record with its successor only
\* (range(i + 1, i + 2)).
MatchEdges_adjacent(records) ==
    { e \in (1..Len(records)) \X (1..Len(records)) :
        e[2] = e[1] + 1 /\ simple_person_match(records[e[1]], records[e[2]]) }

\* The edges find_matches adds: every pair i < j that matches.
MatchEdges(records) ==
    { e \in (1..Len(records)) \X (1..Len(records)) :
        e[1] < e[2] /\ simple_person_match(records[e[1]], records[e[2]]) }

\* networkx's breadth-first search from the nodes of frontier: the set of
\* nodes reachable over edges.
RECURSIVE PlainBfs(_, _, _)
PlainBfs(edges, seen, frontier) ==
    LET nextlevel == { w \in { e[1] : e \in edges } \cup { e[2] : e \in edges } :
                         /\ w \notin seen
                         /\ \E v \in frontier : << v, w >> \in edges \/ << w, v >> \in edges }
    IN  IF nextlevel = {} THEN seen
        ELSE PlainBfs(edges, seen \cup nextlevel, nextlevel)

\* nx.connected_components: one set per component, in the order of each
\* component's first node.
RECURSIVE ConnectedComponents(_, _, _, _)
ConnectedComponents(edges, n, v, seen) ==
    IF v > n THEN <<>>
    ELSE IF v \in seen THEN ConnectedComponents(edges, n, v + 1, seen)
    ELSE LET c == PlainBfs(edges, {v}, {v})
         IN  << c >> \o ConnectedComponents(edges, n, v + 1, seen \cup c)

\* Iterating a Python set of small non-negative ints (all below 8, as the
\* indices of the model are) yields them in increasing order.
RECURSIVE SetIterOrder(_)
SetIterOrder(S) ==
    IF S = {} THEN <<>>
    ELSE LET m == CHOOSE x \in S : \A y \in S : x <= y
         IN  << m >> \o SetIterOrder(S \ {m})

\* find_matches, as groups of indices into records (1-based)
MatchIndexGroups(records) ==
    Only({ [ g \in 1..Len(comps) |-> SetIterOrder(comps[g]) ] :
           comps \in { Only({ ConnectedComponents(edges, Len(records), 1, {}) :
                               edges \in { MatchEdges(records) } }) } })

\* find_matches: group = [records[idx] for idx in component]
find_matches(records) ==
    Only({ [ g \in 1..Len(idx) |-> [ k \in 1..Len(idx[g]) |-> records[idx[g][k]] ] ] :
           idx \in { MatchIndexGroups(records) } })

(***************************************************************************)
(* Merger.                                                                 *)
(***************************************************************************)
\* record_priority: substring tests on the record's data_source
record_priority(record) ==
    LET src == record.data_source
        Has(name) == \E i \in 1..Len(src) : src[i] = name
    IN  IF Has("Rolodex") THEN 3
        ELSE IF Has("ColourcoatsBigin") THEN 2
        ELSE IF Has("MetaliaBigin") THEN 1
        ELSE 0

\* sorted(records, key=record_priority, reverse=True): stable, highest first
SortedByPriority(records) ==
    LET KeyIs(p) == SelectSeq(records, LAMBDA r : record_priority(r) = p)
    IN  KeyIs(3) \o KeyIs(2) \o KeyIs(1) \o KeyIs(0)

RECURSIVE NotIn(_, _)
\* [v for v in new_vals if v not in existing]
NotIn(new_vals, existing) ==
    IF new_vals = <<>> THEN <<>>
    ELSE IF Head(new_vals) \in Range(existing)
         THEN NotIn(Tail(new_vals), existing)
         ELSE << Head(new_vals) >> \o NotIn(Tail(new_vals), existing)

\* The field loop's body with a scalar rule that lets every non-null
\* incoming value overwrite (last wins).
MergeField_overwrite(merged, record, field) ==
    IF field \in { "person_id", "data_source" } THEN merged[field]
    ELSE IF personnel_mappings[field].type = "array"
         THEN IF merged[field] = <<>> THEN record[field]
              ELSE IF record[field] # <<>>
                   THEN merged[field] \o NotIn(record[field], merged[field])
                   ELSE merged[field]
         ELSE IF record[field] # JNull THEN record[field] ELSE merged[field]

\* The body of the field loop for one record and one field: merged's new value.
MergeField(merged, record, field) ==
    IF field \in { "person_id", "data_source" } THEN merged[field]
    ELSE IF personnel_mappings[field].type = "array"
         THEN IF merged[field] = <<>> THEN record[field]
              ELSE IF record[field] # <<>>
                   THEN merged[field] \o NotIn(record[field], merged[field])
                   ELSE merged[field]
         ELSE IF merged[field] = JNull /\ record[field] # JNull
              THEN record[field]
              ELSE merged[field]

RECURSIVE MergeInto(_, _)
\* for record in sorted_records[1:]: for field, value in record.items(): ...
MergeInto(merged, rest) ==
    IF rest = <<>> THEN merged
    ELSE MergeInto([ f \in DOMAIN merged |-> MergeField(merged, Head(rest), f) ],
                   Tail(rest))

\* merge_records giving every merged record, a singleton's too, an id of
\* its own (0 is no candidate's id).
merge_records_new_id(records) ==
    LET sorted_records == SortedByPriority(records)
        srcs == { records[i].data_source : i \in 1..Len(records) }
        merged == [ sorted_records[1] EXCEPT
                       !.data_source = PlusJoin(SortedStrings(srcs)),
                       !.person_id = 0 ]
    IN  MergeInto(merged, Tail(sorted_records))

\* merge_records
merge_records(records) ==
    IF Len(records) = 1 THEN records[1]
    ELSE LET sorted_records == SortedByPriority(records)
             srcs == { records[i].data_source : i \in 1..Len(records) }
             merged == [ sorted_records[1] EXCEPT
                            !.data_source = PlusJoin(SortedStrings(srcs)) ]
         IN  MergeInto(merged, Tail(sorted_records))

(***************************************************************************)
(* merge_company_relationships.                                            *)
(***************************************************************************)
RelKey(rel) == << rel.person_id, rel.company_id, rel.company_name >>

MetadataFields == << "is_active", "start_date", "title_at_company" >>

\* The else branch: existing updated from a later record with the same key.
AbsorbRel(existing, rel) ==
    LET filled == IF rel.data_source = << "Rolodex" >>
                  THEN [ f \in DOMAIN existing |->
                           IF f \in Range(MetadataFields)
                              /\ Truthy(rel[f]) /\ ~Truthy(existing[f])
                           THEN rel[f] ELSE existing[f] ]
                  ELSE existing
        srcs == Range(PlusSplit(existing.data_source)) \cup { rel.data_source }
    IN  [ filled EXCEPT !.data_source = PlusJoin(SortedStrings(srcs)) ]

RECURSIVE MergeRelsInto(_, _)
\* for rel in relationships: ... (merged holds the records seen maps to)
MergeRelsInto(merged, relationships) ==
    IF relationships = <<>> THEN merged
    ELSE LET rel == Head(relationships)
             Same(m) == RelKey(m) = RelKey(rel)
             at == FirstIndex({ i_ \in 1..Len(merged) : Same(merged[i_]) })
         IN  IF at = 0
             THEN MergeRelsInto(Append(merged, rel), Tail(relationships))
             ELSE MergeRelsInto([ merged EXCEPT ![at] = AbsorbRel(merged[at], rel) ],
                                Tail(relationships))

merge_company_relationships(relationships) == MergeRelsInto(<<>>, relationships)

(***************************************************************************)
(* Raw records the model feeds main().                                     *)
(***************************************************************************)
NoCompanies == [ k |-> "absent", items |-> <<>> ]
NoAccount == [ k |-> "absent", v |-> JNull, id |-> JNull ]

Company(id, name, active) ==
    [ isMap |-> TRUE, id |-> id, name |-> name, is_active |-> active,
      start_date |-> JNull, title |-> JNull ]

\* A raw record with the given identifier, names and affiliations and
\* nothing else.
Raw(rid, first, full, companies, account) ==
    [ rolodex_id |-> rid, first_name |-> first, last_name |-> JNull,
      full_name |-> full, title |-> JNull, email |-> JNull, mobile |-> JNull,
      city |-> JNull, country |-> JNull, all_emails |-> <<>>, all_phones |-> <<>>,
      companies |-> companies, Account_Name |-> account ]

Acme == JStr(<< "Acme" >>)
RohanShah == JStr(<< "Rohan", "Shah" >>)

RolodexRaw ==
    { Raw(JInt(1), JNull, RohanShah, NoCompanies, NoAccount),
      Raw(JInt(1), JNull, RohanShah,
          [ k |-> "list", items |-> << Company(JInt(7), Acme, JBool(TRUE)) >> ], NoAccount),
      Raw(JInt(1), JNull, RohanShah,
          [ k |-> "list", items |-> << Company(JInt(7), Acme, JBool(TRUE)),
                                       Company(JInt(7), JStr(<< "Acme", "Ltd" >>), JNull) >> ],
          NoAccount),
      Raw(JInt(2), JStr(<< "Mark" >>), JNull, NoCompanies, NoAccount),
      Raw(JInt(1), JNull, JPadded(<<>>), NoCompanies, NoAccount),
      Raw(JInt(2), JNull, RohanShah, [ k |-> "null", items |-> <<>> ], NoAccount) }

BiginRaw ==
    { Raw(JStr(<< "1" >>), JNull, JStr(<< "Ar.", "Rohan", "Shah" >>), NoCompanies, NoAccount),
      Raw(JStr(<< "1" >>), JNull, RohanShah, NoCompanies,
          [ k |-> "val", v |-> Acme, id |-> JNull ]),
      Raw(JStr(<< "1" >>), JStr(<< "Rohan" >>), JNull, NoCompanies,
          [ k |-> "map", v |-> Acme, id |-> JInt(7) ]),
      Raw(JNull, JNull, RohanShah, NoCompanies,
          [ k |-> "val", v |-> Acme, id |-> JNull ]),
      Raw(JStr(<< "2" >>), JNull, JNull, NoCompanies,
          [ k |-> "val", v |-> Acme, id |-> JNull ]),
      [ Raw(JStr(<< "2" >>), JNull, RohanShah, NoCompanies, NoAccount) EXCEPT
          !.mobile = JStr(<< "9876543210" >>), !.country = JStr(<< "India" >>) ],
      [ Raw(JStr(<< "2" >>), JNull, RohanShah, NoCompanies, NoAccount) EXCEPT
          !.mobile = JStr(<< "9876543210" >>), !.country = JInt(1) ] }

RawRecords(source_name) == IF source_name = "Rolodex" THEN RolodexRaw ELSE BiginRaw

\* The files of a run: both configuration documents and, per source, the
\* raw records its file may hold.
Files(config_exists, mapper_exists, rolodex, bigin) ==
    [ config |-> config_exists, mapper |-> mapper_exists,
      raw |-> [ name \in SourceNames |-> IF name = "Rolodex" THEN rolodex ELSE bigin ] ]

(***************************************************************************)
(* main().                                                                 *)
(***************************************************************************)
\* main() about to start, over the given files.
InitFiles(f) ==
    /\ pc = "start"
    /\ source = 1
    /\ all_personnel_records = <<>>
    /\ all_company_relationships = <<>>
    /\ match_groups = <<>>
    /\ final_personnel = <<>>
    /\ old_to_new_person_id = {}
    /\ final_company_relationships = <<>>
    /\ next_uuid = 1
    /\ raw_data = <<>>
    /\ files = f
    /\ config = "unset"
    /\ personnel_df = <<>>
    /\ companies_df = <<>>
    /\ G = <<>>
    /\ unification = <<>>
    /\ extraction = <<>>

Init == InitFiles(Files(TRUE, TRUE, RawRecords("Rolodex"), RawRecords("MetaliaBigin")))

\* config = load_config(base_dir); mapper_data = load_mapper(base_dir); the
\* two returns of main() when the mapping is empty.  load_config answers a
\* missing file with its built-in configuration, load_mapper answers it
\* with {}.  A configuration file that exists holds what the built-in one
\* holds.
LoadConfiguration ==
    /\ pc = "start"
    /\ config' = IF files.config THEN "file" ELSE "built-in"
    /\ pc' = IF files.mapper THEN "load" ELSE "returned"
    /\ UNCHANGED << source, all_personnel_records, all_company_relationships,
                    match_groups, final_personnel, old_to_new_person_id,
                    final_company_relationships, next_uuid, raw_data,
                    files, personnel_df, companies_df, extraction, unification, G >>

\* One pass of the inner loop: the next raw record of the current source.
\* An exception create_unified_record raises is caught nowhere: it ends main().
ProcessRecord ==
    /\ pc = "load"
    /\ Len(raw_data) < MaxRecords
    /\ \E raw_record \in files.raw[sources[source]] :
         \E r \in { create_unified_record(raw_record, sources[source], next_uuid) } :
             /\ raw_data' = Append(raw_data, << sources[source], raw_record >>)
             /\ IF r.status = "raised"
                THEN /\ pc' = "crashed"
                     /\ UNCHANGED << all_personnel_records, all_company_relationships,
                                     next_uuid >>
                ELSE IF r.status = "rejected"
                THEN /\ next_uuid' = next_uuid + 1
                     /\ UNCHANGED << pc, all_personnel_records,
                                     all_company_relationships >>
                ELSE /\ all_personnel_records' = Append(all_personnel_records, r.person)
                     /\ all_company_relationships' = all_company_relationships \o r.rels
                     /\ next_uuid' = next_uuid + 1 + Len(r.rels)
                     /\ UNCHANGED pc
    /\ UNCHANGED << source, match_groups, final_personnel, old_to_new_person_id,
                    final_company_relationships >>
    /\ UNCHANGED << files, config, personnel_df, companies_df, extraction, unification, G >>

\* The current source's file is exhausted: on to the next source, or to
\* matching after the last.
NextSource ==
    /\ pc = "load"
    /\ IF source < Len(sources)
       THEN source' = source + 1 /\ UNCHANGED pc
       ELSE pc' = "match" /\ UNCHANGED source
    /\ UNCHANGED << all_personnel_records, all_company_relationships, match_groups,
                    final_personnel, old_to_new_person_id,
                    final_company_relationships, next_uuid, raw_data >>
    /\ UNCHANGED << files, config, personnel_df, companies_df, extraction, unification, G >>

\* match_groups = find_matches(all_personnel_records)
FindMatches ==
    /\ pc = "match"
    /\ match_groups' = find_matches(all_personnel_records)
    /\ pc' = "merge"
    /\ UNCHANGED << source, all_personnel_records, all_company_relationships,
                    final_personnel, old_to_new_person_id,
                    final_company_relationships, next_uuid, raw_data >>
    /\ UNCHANGED << files, config, personnel_df, companies_df, extraction, unification, G >>

\* The mapping left as the identity: every member keeps its own id.
IdMapping_identity(groups, merged) ==
    UNION { { << groups[g][k].person_id, groups[g][k].person_id >> :
                k \in 1..Len(groups[g]) } : g \in 1..Len(groups) }

\* old_to_new_person_id after the loop: a later group's entry for an id
\* replaces an earlier one.
IdMapping(groups, merged) ==
    LET Last(old) == CHOOSE g \in 1..Len(groups) :
                        /\ \E k \in 1..Len(groups[g]) : groups[g][k].person_id = old
                        /\ \A h \in (g + 1)..Len(groups) :
                              \A k \in 1..Len(groups[h]) : groups[h][k].person_id # old
    IN  UNION { { << groups[g][k].person_id,
                     merged[Last(groups[g][k].person_id)].person_id >> :
                    k \in 1..Len(groups[g]) } : g \in 1..Len(groups) }

\* for group in match_groups: merged = merge_records(group, ...); ...
MergeGroups ==
    /\ pc = "merge"
    /\ final_personnel' = [ g \in 1..Len(match_groups) |-> merge_records(match_groups[g]) ]
    /\ old_to_new_person_id' = IdMapping(match_groups, final_personnel')
    /\ pc' = "remap"
    /\ UNCHANGED << source, all_personnel_records, all_company_relationships,
                    match_groups, final_company_relationships, next_uuid, raw_data >>
    /\ UNCHANGED << files, config, personnel_df, companies_df, extraction, unification, G >>

\* for rel in all_company_relationships: rel['person_id'] = old_to_new[...]
RemapRelationships ==
    /\ pc = "remap"
    /\ all_company_relationships' =
         [ i \in 1..Len(all_company_relationships) |->
             LET rel == all_company_relationships[i]
             IN  IF \E m \in old_to_new_person_id : m[1] = rel.person_id
                 THEN [ rel EXCEPT !.person_id =
                          (CHOOSE m \in old_to_new_person_id : m[1] = rel.person_id)[2] ]
                 ELSE rel ]
    /\ pc' = "relmerge"
    /\ UNCHANGED << source, all_personnel_records, match_groups, final_personnel,
                    old_to_new_person_id, final_company_relationships, next_uuid,
                    raw_data >>
    /\ UNCHANGED << files, config, personnel_df, companies_df, extraction, unification, G >>

\* final_company_relationships = merge_company_relationships(...).  The
\* records it keeps are the input list's own objects, so the updates it
\* makes show in all_company_relationships too.
MergeRelationships ==
    /\ pc = "relmerge"
    /\ final_company_relationships' = merge_company_relationships(all_company_relationships)
    /\ all_company_relationships' =
         [ i \in 1..Len(all_company_relationships) |->
             LET rel == all_company_relationships[i]
                 Same(m) == RelKey(m) = RelKey(rel)
             IN  IF FirstIndex({ i_ \in 1..Len(all_company_relationships) : Same(all_company_relationships[i_]) }) = i
                 THEN final_company_relationships'[
                          FirstIndex({ i_ \in 1..Len(final_company_relationships') : Same(final_company_relationships'[i_]) })]
                 ELSE rel ]
    /\ pc' = "done"
    /\ UNCHANGED << source, all_personnel_records, match_groups, final_personnel,
                    old_to_new_person_id, next_uuid, raw_data >>
    /\ UNCHANGED << files, config, personnel_df, companies_df, extraction, unification, G >>

(***************************************************************************)
(* The two tables main() saves.  sort_values orders rows by two columns,   *)
(* None last, rows with equal keys in the order they had.  The columns     *)
(* hold strings, compared as Python compares them; person_id holds         *)
(* str(uuid.uuid4()), so how two person_ids compare is whatever the run's  *)
(* draws make it: rank gives each id its place among the ids of the table. *)
(***************************************************************************)
\* The place of a word among the words of the sorted columns, as Python's
\* string order has them ('+' sorts before every letter).
WordRank(t) ==
    CASE t = " "                -> 1
      [] t = "+"                -> 2
      [] t = "."                -> 3
      [] t = "Acme"             -> 4
      [] t = "Ar."              -> 5
      [] t = "ColourcoatsBigin" -> 6
      [] t = "Ltd"              -> 7
      [] t = "Mark"             -> 8
      [] t = "MetaliaBigin"     -> 9
      [] t = "Mr"               -> 10
      [] t = "Rohan"            -> 11
      [] t = "Rolodex"          -> 12
      [] t = "Shah"             -> 13
      [] t = "Works"            -> 14
      [] t = "Z"                -> 15
      [] t = "inc"              -> 16
      [] OTHER                  -> 17

\* a < b for two strings given as words; a proper prefix sorts first.
RECURSIVE TextLess(_, _)
TextLess(a, b) ==
    IF a = <<>> THEN b # <<>>
    ELSE IF b = <<>> THEN FALSE
    ELSE IF Head(a) = Head(b) THEN TextLess(Tail(a), Tail(b))
    ELSE WordRank(Head(a)) < WordRank(Head(b))

\* One column's order: None last (na_position='last'), numbers by value,
\* strings by TextLess.
ValueLess(x, y) ==
    /\ x.k # "null"
    /\ \/ y.k = "null"
       \/ IF x.k = "int" THEN x.n < y.n ELSE TextLess(x.w, y.w)

\* The order on << first column, second column >> keys.
KeyLess(a, b) ==
    \/ ValueLess(a[1], b[1])
    \/ /\ ~ValueLess(b[1], a[1])
       /\ ValueLess(a[2], b[2])

\* The stable sort of the rows whose keys are given, as the sequence of
\* row numbers in sorted order.
RECURSIVE SortIndices(_, _)
SortIndices(keys, remaining) ==
    IF remaining = {} THEN <<>>
    ELSE LET m == CHOOSE i \in remaining :
                    \A j \in remaining \ {i} :
                       \/ KeyLess(keys[i], keys[j])
                       \/ ~KeyLess(keys[j], keys[i]) /\ i < j
         IN  << m >> \o SortIndices(keys, remaining \ {m})

\* df.sort_values([c1, c2], na_position='last'), keys[i] being row i's
\* << c1, c2 >>
sort_values(df, keys) ==
    Only({ [ k \in 1..Len(df) |-> df[order[k]] ] :
           order \in { SortIndices(keys, 1..Len(df)) } })

\* Every way the person_ids of a table can compare with one another.
UuidOrders(ids) ==
    { rank \in [ ids -> 1..Cardinality(ids) ] :
        \A a, b \in ids : a # b => rank[a] # rank[b] }

\* personnel_df.sort_values(['data_source', 'full_name'], na_position='last')
SortedPersonnel(persons) ==
    sort_values(persons, [ i \in 1..Len(persons) |->
                             << JStr(persons[i].data_source), persons[i].full_name >> ])

\* companies_df.sort_values(['person_id', 'company_name'], na_position='last')
SortedRelationships(rels, rank) ==
    sort_values(rels, [ i \in 1..Len(rels) |->
                          << JInt(rank[rels[i].person_id]), rels[i].company_name >> ])

\* Create DataFrames, sort, save both files.
SaveOutput ==
    /\ pc = "done"
    /\ personnel_df' = SortedPersonnel(final_personnel)
    /\ \E rank \in UuidOrders({ final_company_relationships[i].person_id :
                                   i \in 1..Len(final_company_relationships) }) :
         companies_df' = SortedRelationships(final_company_relationships, rank)
    /\ pc' = "saved"
    /\ UNCHANGED << source, all_personnel_records, all_company_relationships,
                    match_groups, final_personnel, old_to_new_person_id,
                    final_company_relationships, next_uuid, raw_data,
                    files, config, extraction, unification, G >>

Next ==
    \/ LoadConfiguration
    \/ ProcessRecord
    \/ NextSource
    \/ FindMatches
    \/ MergeGroups
    \/ RemapRelationships
    \/ MergeRelationships
    \/ SaveOutput

Spec == Init /\ [][Next]_vars

(***************************************************************************)
(* The matcher and the merger on their own: main() from the point where    *)
(* the candidates are loaded, over candidate lists wider than the raw      *)
(* records above produce.  A candidate is what create_unified_record       *)
(* returns: a generated person_id of its own, one source name, processed   *)
(* names, lists of truthy elements.                                        *)
(***************************************************************************)
Cand(pid, src, rid, full, city, emails) ==
    [ person_id |-> pid, data_source |-> << src >>, rolodex_id |-> rid,
      first_name |-> JStr(<< full[1] >>),
      last_name |-> IF Len(full) >= 2 THEN JStr(Tail(full)) ELSE JNull,
      full_name |-> JStr(full), title |-> JNull, email |-> JNull,
      mobile |-> JNull, city |-> city, country |-> JNull,
      all_emails |-> emails, all_phones |-> <<>> ]

InitLoaded(cands) ==
    /\ pc = "match"
    /\ source = Len(sources)
    /\ all_personnel_records = cands
    /\ all_company_relationships = <<>>
    /\ match_groups = <<>>
    /\ final_personnel = <<>>
    /\ old_to_new_person_id = {}
    /\ final_company_relationships = <<>>
    /\ next_uuid = Len(cands) + 1
    /\ raw_data = <<>>
    /\ files = Files(TRUE, TRUE, {}, {})
    /\ config = "file"
    /\ personnel_df = <<>>
    /\ companies_df = <<>>
    /\ G = <<>>
    /\ unification = <<>>
    /\ extraction = <<>>

\* Identifier values: absent, numbers (0 is falsy), and strings.
MatchIds == { JNull, JInt(0), JInt(1), JInt(2), JStr(<< "1" >>), JStr(<< "2" >>) }

MatchNames == { << "Rohan", "Shah" >>, << "Mark" >> }

InitMatch ==
    \E m \in 0..MaxCands :
      \E f \in [ 1..m -> MatchIds \X MatchNames ] :
        InitLoaded([ i \in 1..m |->
            Cand(i, IF f[i][1].k = "int" THEN "Rolodex" ELSE "ColourcoatsBigin",
                 f[i][1], f[i][2], JNull, <<>>) ])

NextMatch == FindMatches \/ MergeGroups

SpecMatch == InitMatch /\ [][NextMatch]_vars

\* One identity group: every candidate carries the same identifier.
MergeCities == { JNull, JStr(<< "Delhi" >>), JStr(<< "Mumbai" >>) }

EmailA == JStr(<< "a@x.com" >>)
EmailB == JStr(<< "b@x.com" >>)

MergeEmails == { <<>>, << EmailA >>, << EmailA, EmailB >>, << EmailB, EmailB >> }

InitMerge ==
    \E m \in 1..MaxGroup :
      \E f \in [ 1..m -> SourceNames \X MergeCities \X MergeEmails ] :
        InitLoaded([ i \in 1..m |->
            Cand(i, f[i][1], JStr(<< "1" >>), << "Rohan", "Shah" >>, f[i][2], f[i][3]) ])

SpecMerge == InitMerge /\ [][NextMatch]_vars

(***************************************************************************)
(* Properties of the matcher.                                              *)
(***************************************************************************)
Matched == pc \in { "merge", "remap", "relmerge", "done" }

CandIdx == 1..Len(all_personnel_records)

\* Candidates i and j are members of one group of match_groups.
SameGroup(i, j) ==
    \E g \in 1..Len(match_groups) :
        /\ all_personnel_records[i] \in Range(match_groups[g])
        /\ all_personnel_records[j] \in Range(match_groups[g])

\* The pairs of candidates joined by a chain of pairwise matches: the
\* reflexive, symmetric, transitive closure of simple_person_match.
RECURSIVE Closure(_)
Closure(R) ==
    LET step == { e \in CandIdx \X CandIdx :
                    e \in R \/ \E b \in CandIdx : << e[1], b >> \in R /\ << b, e[2] >> \in R }
    IN  IF step = R THEN R ELSE Closure(step)

Chained ==
    Closure({ e \in CandIdx \X CandIdx :
                \/ e[1] = e[2]
                \/ simple_person_match(all_personnel_records[e[1]],
                                       all_personnel_records[e[2]])
                \/ simple_person_match(all_personnel_records[e[2]],
                                       all_personnel_records[e[1]]) })

C2_PartitionByChains ==
    /\ Matched =>
         /\ \A g \in 1..Len(match_groups) : Len(match_groups[g]) >= 1
         /\ \A i \in CandIdx :
              Cardinality({ g \in 1..Len(match_groups) :
                  \E k \in 1..Len(match_groups[g]) :
                      match_groups[g][k] = all_personnel_records[i] }) = 1
         /\ \A g \in 1..Len(match_groups) : \A k, l \in 1..Len(match_groups[g]) :
              /\ match_groups[g][k] \in Range(all_personnel_records)
              /\ k # l => match_groups[g][k] # match_groups[g][l]
         /\ \A i, j \in CandIdx : SameGroup(i, j) <=> << i, j >> \in Chained
    /\ pc \in { "remap", "relmerge", "done" } =>
         /\ Len(final_personnel) = Len(match_groups)
         /\ \A i, j \in CandIdx : << i, j >> \in Chained =>
              \E g \in 1..Len(final_personnel) :
                /\ << all_personnel_records[i].person_id, final_personnel[g].person_id >>
                      \in old_to_new_person_id
                /\ << all_personnel_records[j].person_id, final_personnel[g].person_id >>
                      \in old_to_new_person_id
                /\ \A h \in 1..Len(final_personnel) :
                      final_personnel[h].person_id = final_personnel[g].person_id => h = g

\* C2's case: A matches B and B matches C, all three merged into one record.
C2_Witness ==
    /\ pc = "remap"
    /\ Len(all_personnel_records) = 3
    /\ Len(final_personnel) = 1
    /\ simple_person_match(all_personnel_records[1], all_personnel_records[2])
    /\ simple_person_match(all_personnel_records[2], all_personnel_records[3])

(***************************************************************************)
(* Properties of the merger and of the relationship remap.                 *)
(***************************************************************************)
Merged == pc \in { "remap", "relmerge", "done" }

GroupIdx == 1..Len(match_groups)

\* C3: once main has merged and remapped, every relationship record's
\* person_id is the person_id of a record of final_personnel, and none is
\* the id of a group member that is not its group's canonical record.
C3_RemapIntegrity ==
    pc \in { "relmerge", "done" } =>
      LET mergedAway ==
            UNION { { match_groups[g][k].person_id : k \in 1..Len(match_groups[g]) }
                      \ { final_personnel[g].person_id } : g \in GroupIdx }
      IN  \A rel \in Range(all_company_relationships) \cup Range(final_company_relationships) :
            /\ \E g \in 1..Len(final_personnel) :
                  final_personnel[g].person_id = rel.person_id
            /\ rel.person_id \notin mergedAway

\* C3's case: a relationship extracted from a group member that was merged
\* away now carries the id of the group's canonical record.
C3_Witness ==
    /\ pc = "relmerge"
    /\ \E g \in GroupIdx : \E k \in 1..Len(match_groups[g]) :
         \E rel \in Range(all_company_relationships) :
           /\ match_groups[g][k].person_id # final_personnel[g].person_id
           /\ match_groups[g][k].data_source = << "ColourcoatsBigin" >>
           /\ rel.data_source = << "ColourcoatsBigin" >>
           /\ final_personnel[g].rolodex_id.k = "int"
           /\ rel.person_id = final_personnel[g].person_id

\* Source priority as the claim states it: Rolodex, then ColourcoatsBigin,
\* then MetaliaBigin.
ClaimedRank(record) ==
    CASE record.data_source = << "Rolodex" >>          -> 1
      [] record.data_source = << "ColourcoatsBigin" >> -> 2
      [] record.data_source = << "MetaliaBigin" >>     -> 3
      [] OTHER                                         -> 4

\* Member i of group comes before member j in priority order, ties by
\* position.
ComesBefore(group, i, j) ==
    \/ ClaimedRank(group[i]) < ClaimedRank(group[j])
    \/ ClaimedRank(group[i]) = ClaimedRank(group[j]) /\ i < j

\* C4: for every group and every sourced scalar field, the merged value is
\* the value of the first member, in priority order (Rolodex, then
\* ColourcoatsBigin, then MetaliaBigin, ties by position in the group), that
\* holds a non-null value; it is null only if every member's value is null.
C4_ScalarFirstWins ==
    Merged =>
      \A g \in GroupIdx : \A f \in ScalarFields :
        LET group == match_groups[g]
            holders == { i \in 1..Len(group) : group[i][f] # JNull }
        IN  IF holders = {} THEN final_personnel[g][f] = JNull
            ELSE \E i \in holders :
                   /\ \A j \in holders \ {i} : ComesBefore(group, i, j)
                   /\ final_personnel[g][f] = group[i][f]

\* C4's case: the Rolodex member, second in the group, has no city and the
\* MetaliaBigin member's city fills it in; or both have one and Rolodex's wins.
C4_Witness ==
    /\ pc = "remap"
    /\ \E g \in GroupIdx :
         /\ Len(match_groups[g]) = 2
         /\ match_groups[g][1].data_source = << "MetaliaBigin" >>
         /\ match_groups[g][2].data_source = << "Rolodex" >>
         /\ match_groups[g][1].city = JStr(<< "Mumbai" >>)
         /\ match_groups[g][2].city = JStr(<< "Delhi" >>)
         /\ final_personnel[g].city = JStr(<< "Delhi" >>)

RECURSIVE Dedup(_, _)
\* items without the elements of seen and without repeats, order kept
Dedup(items, seen) ==
    IF items = <<>> THEN <<>>
    ELSE IF Head(items) \in seen THEN Dedup(Tail(items), seen)
    ELSE << Head(items) >> \o Dedup(Tail(items), seen \cup { Head(items) })

RECURSIVE ConcatField(_, _)
ConcatField(records, f) ==
    IF records = <<>> THEN <<>>
    ELSE Head(records)[f] \o ConcatField(Tail(records), f)

\* C5: for every group and every array-typed field, the merged list holds
\* every element of every member's list, no element twice, in first-seen
\* order when the members are scanned in priority order.
C5_ListUnion ==
    Merged =>
      \A g \in GroupIdx : \A f \in ArrayFields :
        final_personnel[g][f] =
            Dedup(ConcatField(SortedByPriority(match_groups[g]), f), {})

\* The source names of S in alphabetical order, joined by '+'.
ExpectedDataSource(S) ==
    LET C == IF "ColourcoatsBigin" \in S THEN << "ColourcoatsBigin" >> ELSE <<>>
        M == IF "MetaliaBigin" \in S THEN << "MetaliaBigin" >> ELSE <<>>
        R == IF "Rolodex" \in S THEN << "Rolodex" >> ELSE <<>>
        Plus(a, b) == IF a # <<>> /\ b # <<>> THEN a \o << "+" >> \o b ELSE a \o b
    IN  Plus(Plus(C, M), R)

\* C6: every final person's data_source is the '+'-joined, alphabetically
\* sorted, duplicate-free list of the source names of its group's members.
C6_DataSourceUnion ==
    Merged =>
      \A g \in GroupIdx :
        final_personnel[g].data_source =
          ExpectedDataSource({ match_groups[g][k].data_source[1] :
                                 k \in 1..Len(match_groups[g]) })

\* C6's case: a Rolodex member listed before a ColourcoatsBigin member.
C6_Witness ==
    /\ pc = "remap"
    /\ \E g \in GroupIdx :
         /\ Len(match_groups[g]) = 2
         /\ match_groups[g][1].data_source = << "Rolodex" >>
         /\ match_groups[g][2].data_source = << "ColourcoatsBigin" >>
         /\ final_personnel[g].data_source = << "ColourcoatsBigin", "+", "Rolodex" >>

(***************************************************************************)
(* Properties of main() over the raw records it has read.                  *)
(***************************************************************************)
RECURSIVE Loaded(_, _)
\* The candidates create_unified_record makes of the raw records raws, the
\* first uuid being uuid.
Loaded(raws, uuid) ==
    IF raws = <<>> THEN <<>>
    ELSE LET r == create_unified_record(Head(raws)[2], Head(raws)[1], uuid)
         IN  IF r.status = "ok"
             THEN << r.person >> \o Loaded(Tail(raws), uuid + 1 + Len(r.rels))
             ELSE IF r.status = "rejected" THEN Loaded(Tail(raws), uuid + 1)
             ELSE <<>>

\* C7: merging a group of one candidate gives a record equal to it in every
\* field, person_id and native id included, with the candidate's one source
\* name as data_source; the candidates are still what create_unified_record
\* made of the raw records.
C7_SingletonMerge ==
    Merged =>
      /\ \A g \in GroupIdx :
           Len(match_groups[g]) = 1 =>
             /\ final_personnel[g] = match_groups[g][1]
             /\ \E i \in CandIdx :
                  /\ all_personnel_records[i] = match_groups[g][1]
                  /\ \E name \in SourceNames : final_personnel[g].data_source = << name >>
      /\ all_personnel_records = Loaded(raw_data, 1)

\* C7's case: a group of one beside a group of two.
C7_Witness ==
    /\ pc = "remap"
    /\ \E g, h \in GroupIdx :
         /\ Len(match_groups[g]) = 1
         /\ Len(match_groups[h]) = 2
         /\ final_personnel[g] = match_groups[g][1]
         /\ final_personnel[g].rolodex_id # JNull

NonBlank(v) == v.k = "str" /\ v.w # <<>>

\* After extraction and name processing, some name field of the raw record
\* is a non-blank string.
HasName(raw_record) ==
    LET names == process_names(safe_get_value(raw_record, "first_name"),
                               safe_get_value(raw_record, "last_name"),
                               safe_get_value(raw_record, "full_name"))
    IN  NonBlank(names.first_name) \/ NonBlank(names.last_name)
        \/ NonBlank(names.full_name)

\* C8: create_unified_record rejects a raw record, returning (None, []),
\* exactly when none of its processed name fields is a non-blank string; a
\* rejected record adds no candidate and no relationship, and while the run
\* goes on every record with a name has added its candidate.
C8_Rejection ==
    /\ \A i \in 1..Len(raw_data) :
         LET r == create_unified_record(raw_data[i][2], raw_data[i][1], 1)
         IN  /\ r.status = "rejected" <=> ~HasName(raw_data[i][2])
             /\ r.status = "rejected" => r.rels = <<>>
    /\ pc # "crashed" =>
         Len(all_personnel_records) =
             Cardinality({ i \in 1..Len(raw_data) : HasName(raw_data[i][2]) })
    /\ pc = "load" =>
         \A rel \in Range(all_company_relationships) :
           \E i \in CandIdx : all_personnel_records[i].person_id = rel.person_id

\* C8's case: a nameless record that names a company has been read and
\* rejected, after a record that was accepted.
C8_Witness ==
    /\ pc = "load"
    /\ Len(raw_data) = 2
    /\ Len(all_personnel_records) = 1
    /\ ~HasName(raw_data[2][2])
    /\ raw_data[2][2].Account_Name.k = "val"
    /\ all_company_relationships = <<>>

\* The company identity of a relationship: company_id when present,
\* company_name otherwise.
CompanyIdentity(rel) == IF rel.company_id # JNull THEN rel.company_id ELSE rel.company_name

\* C9: in merge_company_relationships' output no two records share
\* person_id and company identity, and a record with company_id and
\* company_name set never stands beside one of the same person with no
\* company_id and the same company_name.
C9_RelationshipUniqueness ==
    pc = "done" =>
      \A i, j \in 1..Len(final_company_relationships) :
        LET a == final_company_relationships[i]
            b == final_company_relationships[j]
        IN  (i # j /\ a.person_id = b.person_id) =>
              /\ CompanyIdentity(a) # CompanyIdentity(b)
              /\ ~(a.company_id # JNull /\ b.company_id = JNull
                   /\ a.company_name = b.company_name)

\* C10: main never ends on an exception a raw record raised: every record
\* either adds a candidate or is skipped.
C10_NeverAborts == pc # "crashed"

(***************************************************************************)
(* Runs in which a configuration document may be missing.                  *)
(***************************************************************************)
ConfigRolodexRaw ==
    { Raw(JInt(1), JNull, RohanShah,
          [ k |-> "list", items |-> << Company(JInt(7), Acme, JBool(TRUE)) >> ], NoAccount),
      Raw(JInt(2), JStr(<< "Mark" >>), JNull, NoCompanies, NoAccount) }

ConfigBiginRaw ==
    { Raw(JStr(<< "1" >>), JNull, JStr(<< "Ar.", "Rohan", "Shah" >>), NoCompanies, NoAccount),
      Raw(JNull, JNull, RohanShah, NoCompanies,
          [ k |-> "val", v |-> Acme, id |-> JNull ]) }

InitConfig ==
    \E config_exists \in BOOLEAN, mapper_exists \in BOOLEAN :
        InitFiles(Files(config_exists, mapper_exists, ConfigRolodexRaw, ConfigBiginRaw))

SpecConfig == InitConfig /\ [][Next]_vars

\* C11: when the field-mapping file or the name-processing configuration
\* file is absent, no source record is ever processed.
C11_ConfigurationRequired ==
    (~files.config \/ ~files.mapper) => raw_data = <<>>

(***************************************************************************)
(* The field extractor on its own: safe_get_value called on a nested       *)
(* contact and a path.                                                     *)
(***************************************************************************)
Text(w) == JStr(w)

\* What the contact's 'location' may hold.
ExtractLocations ==
    { Text(<< "Mumbai", ", ", "India" >>), Text(<< ", ", "Mumbai" >>),
      Text(<< "Mumbai", ", " >>), Text(<< "Mumbai" >>), Text(<<>>), JNull, JInt(5) }

\* What the contact's 'emails' may hold.
ExtractEmails ==
    { JList(<<>>),
      JList(<< JMap([ address |-> EmailA ]), JMap([ address |-> Text(<<>>) ]) >>),
      JList(<< EmailA, Text(<<>>), JNull >>),
      JList(<< Text(<<>>) >>),
      EmailA }

ExtractRecords ==
    { JMap([ location |-> l, emails |-> e,
             address |-> JMap([ city |-> Text(<< "Pune" >>), lines |-> JList(<<>>) ]) ]) :
        l \in ExtractLocations, e \in ExtractEmails }
    \cup { JMap(<<>>), JNull }

ExtractPaths ==
    { EmptyPath,
      PlainPath(<< Key("location") >>),
      PlainPath(<< Key("emails") >>),
      PlainPath(<< Key("missing") >>),
      PlainPath(<< Key("address"), Key("city") >>),
      PlainPath(<< Key("address"), Key("lines") >>),
      PlainPath(<< Key("location"), Key("city") >>),
      PlainPath(<< At("emails", 0) >>),
      PlainPath(<< At("emails", 1), Key("address") >>),
      PlainPath(<< At("emails", 3) >>),
      PlainPath(<< At("emails", BadIndex) >>),
      PlainPath(<< At("location", 0) >>),
      WildPath(<< "emails" >>, PlainPath(<< Key("address") >>)),
      WildPath(<< "emails" >>, EmptyPath),
      WildPath(<< "location" >>, EmptyPath),
      WildPath(<< "address", "lines" >>, EmptyPath),
      WildPath(<< "missing" >>, PlainPath(<< Key("address") >>)),
      SplitPath(PlainPath(<< Key("location") >>), 0),
      SplitPath(PlainPath(<< Key("location") >>), 1),
      SplitPath(PlainPath(<< Key("location") >>), 2),
      SplitPath(PlainPath(<< Key("location") >>), BadIndex),
      SplitPath(PlainPath(<< Key("address"), Key("city") >>), 0),
      SplitPath(PlainPath(<< Key("missing") >>), 0) }

InitExtract ==
    /\ pc = "extract"
    /\ source = 1
    /\ all_personnel_records = <<>>
    /\ all_company_relationships = <<>>
    /\ match_groups = <<>>
    /\ final_personnel = <<>>
    /\ old_to_new_person_id = {}
    /\ final_company_relationships = <<>>
    /\ next_uuid = 1
    /\ raw_data = <<>>
    /\ files = Files(TRUE, TRUE, {}, {})
    /\ config = "file"
    /\ personnel_df = <<>>
    /\ companies_df = <<>>
    /\ G = <<>>
    /\ unification = <<>>
    /\ \E record \in ExtractRecords, path \in ExtractPaths :
         extraction = [ record |-> record, path |-> path,
                        returned |-> FALSE, result |-> JNull ]

\* value = safe_get_value(record, path)
Extract ==
    /\ pc = "extract"
    /\ ~extraction.returned
    /\ extraction' = [ extraction EXCEPT
                         !.returned = TRUE,
                         !.result = safe_get_value_at(extraction.record, extraction.path) ]
    /\ UNCHANGED << pc, source, all_personnel_records, all_company_relationships,
                    match_groups, final_personnel, old_to_new_person_id,
                    final_company_relationships, next_uuid, raw_data,
                    files, config, personnel_df, companies_df,
                    unification, G >>

SpecExtract == InitExtract /\ [][Extract]_vars

\* The token a split path selects, when its base resolves to a value and
\* the index is in range: << token >>, else << >>.
SelectedToken(record, path) ==
    LET value == safe_get_value_at(record, path.base)
        parts == SplitCommaSpace(PyStr(value).w)
    IN  IF value.k # "null" /\ path.index >= 0 /\ path.index < Len(parts)
        THEN << parts[path.index + 1] >>
        ELSE <<>>

\* C12: safe_get_value's result is never the empty string and never an
\* empty list, and a split path whose token is out of range or is itself
\* the empty string yields None.
C12_EmptyAsAbsent ==
    (pc = "extract" /\ extraction.returned) =>
        /\ ~(extraction.result.k = "str" /\ extraction.result.w = <<>>
             /\ extraction.result.n = 0)
        /\ ~(extraction.result.k = "list" /\ extraction.result.items = <<>>)
        /\ (extraction.path.kind = "split"
            /\ SelectedToken(extraction.record, extraction.path) \in { <<>>, << <<>> >> })
           => extraction.result.k = "null"

(***************************************************************************)
(* Phones.                                                                 *)
(***************************************************************************)
\* The E.164 strings the validator produces for the numbers of the model.
ValidE164 == { JStr(<< "+919876543210" >>) }

PhonesNormalized(person) ==
    /\ person.mobile \in { JNull } \cup ValidE164
    /\ \A i \in 1..Len(person.all_phones) : person.all_phones[i] \in ValidE164

\* C13: every candidate's and every final person's mobile and all_phones
\* elements are null or a validated E.164 string, and normalize_phone
\* raises for no phone and country a raw record hands it.
C13_PhoneInvariant ==
    /\ \A i \in 1..Len(all_personnel_records) : PhonesNormalized(all_personnel_records[i])
    /\ \A i \in 1..Len(final_personnel) : PhonesNormalized(final_personnel[i])
    /\ \A i \in 1..Len(raw_data) :
         LET raw_record == raw_data[i][2]
         IN  ~normalize_phone(safe_get_value(raw_record, "mobile"),
                              safe_get_value(raw_record, "country")).raised

(***************************************************************************)
(* Runs over contacts with explicit titles.  Every contact of these files  *)
(* has a name and raises nothing, so candidate i comes from raw record i.  *)
(***************************************************************************)
Titled(full, title) ==
    [ Raw(JNull, JNull, JStr(full), NoCompanies, NoAccount) EXCEPT !.title = title ]

TitleRaw ==
    { Titled(<< "Ar.", "Rohan", "Shah" >>, JNull),
      Titled(<< "Ar.", "Rohan", "Shah" >>, JStr(<< "Engineer", "at", "Acme" >>)),
      Titled(<< "Mark" >>, JStr(<< "Engineer" >>)),
      Titled(<< "Mark" >>, JPadded(<<>>)),
      Titled(<< "Rohan", "Shah" >>, JInt(5)) }

InitTitle == InitFiles(Files(TRUE, TRUE, TitleRaw, TitleRaw))

SpecTitle == InitTitle /\ [][Next]_vars

\* The explicit title raw record i resolves.
ExplicitTitle(i) == safe_get_value(raw_data[i][2], "title")

\* The candidate made from raw record i, while the records are loaded.
Loading == pc = "load" /\ Len(all_personnel_records) = Len(raw_data)

ArRohanShah == JStr(<< "Ar.", "Rohan", "Shah" >>)

PairRolodexRaw ==
    { Raw(JInt(0), JNull, RohanShah, NoCompanies, NoAccount),
      Raw(JInt(1), JNull, RohanShah, NoCompanies, NoAccount),
      Raw(JInt(1), JNull, ArRohanShah, NoCompanies, NoAccount) }

PairBiginRaw ==
    { Raw(JInt(0), JNull, ArRohanShah, NoCompanies, NoAccount),
      Raw(JInt(0), JNull, RohanShah, NoCompanies, NoAccount),
      Raw(JStr(<< "1" >>), JNull, ArRohanShah, NoCompanies, NoAccount),
      Raw(JStr(<< "1" >>), JNull, RohanShah, NoCompanies, NoAccount) }

InitPair == InitFiles(Files(TRUE, TRUE, PairRolodexRaw, PairBiginRaw))

SpecPair == InitPair /\ [][Next]_vars

\* The run read exactly two records, from two sources, that resolve the
\* same non-null rolodex_id, one named 'Ar. Rohan Shah' and one
\* 'Rohan Shah', neither with an explicit title.
ScenarioRead ==
    /\ Len(raw_data) = 2
    /\ raw_data[1][1] # raw_data[2][1]
    /\ safe_get_value(raw_data[1][2], "rolodex_id") # JNull
    /\ PyStr(safe_get_value(raw_data[1][2], "rolodex_id"))
         = PyStr(safe_get_value(raw_data[2][2], "rolodex_id"))
    /\ { raw_data[1][2].full_name, raw_data[2][2].full_name } = { ArRohanShah, RohanShah }
    /\ safe_get_value(raw_data[1][2], "title") = JNull
    /\ safe_get_value(raw_data[2][2], "title") = JNull

\* C15: such a run ends with exactly one final person: title 'Architect',
\* full_name 'Rohan Shah', data_source the two source names joined by '+'
\* in sorted order, and the shared rolodex_id.
C15_EndToEnd ==
    (pc = "done" /\ ScenarioRead) =>
      /\ Len(final_personnel) = 1
      /\ final_personnel[1].title = JStr(<< "Architect" >>)
      /\ final_personnel[1].full_name = RohanShah
      /\ final_personnel[1].data_source
           = ExpectedDataSource({ raw_data[1][1], raw_data[2][1] })
      /\ PyStr(final_personnel[1].rolodex_id)
           = PyStr(safe_get_value(raw_data[1][2], "rolodex_id"))

(***************************************************************************)
(* The matcher over candidates with contact details and affiliations:      *)
(* main() from the point where the candidates and their relationships are  *)
(* loaded.                                                                 *)
(***************************************************************************)
\* candidates handed to find_matches in SpecFallback
MaxFallback == 2

EmailUpperA == JStr(<< "A@X.COM" >>)

\* What a candidate may carry as contact detail: << email, mobile >>.
FallbackContacts ==
    { << JNull, JNull >>, << EmailA, JNull >>, << EmailUpperA, JNull >>,
      << JNull, JStr(<< "+919876543210" >>) >> }

FallbackCompanies == { JNull, Acme }

\* Candidate i, named 'Rohan Shah', with identifier rid and the contact
\* details c.
FallbackCand(i, rid, c) ==
    [ Cand(i, IF rid.k = "int" THEN "Rolodex" ELSE "ColourcoatsBigin",
           rid, << "Rohan", "Shah" >>, JNull,
           IF c[1] # JNull THEN << c[1] >> ELSE <<>>)
      EXCEPT !.email = c[1], !.mobile = c[2] ]

\* The relationship records of the candidates that have a company, in
\* candidate order.
RECURSIVE FallbackRels(_, _, _)
FallbackRels(cands, companies, uuid) ==
    IF cands = <<>> THEN <<>>
    ELSE IF Head(companies) = JNull
    THEN FallbackRels(Tail(cands), Tail(companies), uuid)
    ELSE << NewRel(uuid, Head(cands).person_id, JNull, Head(companies),
                   JNull, JNull, JNull, Head(cands).data_source[1]) >>
         \o FallbackRels(Tail(cands), Tail(companies), uuid + 1)

InitFallback ==
    \E m \in 0..MaxFallback :
      \E f \in [ 1..m -> { JNull, JInt(1) } \X FallbackContacts \X FallbackCompanies ] :
        LET cands == [ i \in 1..m |-> FallbackCand(i, f[i][1], f[i][2]) ]
            rels == FallbackRels(cands, [ i \in 1..m |-> f[i][3] ], m + 1)
        IN  /\ pc = "match"
            /\ source = Len(sources)
            /\ all_personnel_records = cands
            /\ all_company_relationships = rels
            /\ match_groups = <<>>
            /\ final_personnel = <<>>
            /\ old_to_new_person_id = {}
            /\ final_company_relationships = <<>>
            /\ next_uuid = m + Len(rels) + 1
            /\ raw_data = <<>>
            /\ files = Files(TRUE, TRUE, {}, {})
            /\ config = "file"
            /\ personnel_df = <<>>
            /\ companies_df = <<>>
            /\ G = <<>>
            /\ unification = <<>>
            /\ extraction = <<>>

SpecFallback == InitFallback /\ [][NextMatch]_vars

\* Candidates i and j do not both carry a rolodex_id.
NotBothIdentified(i, j) ==
    \/ all_personnel_records[i].rolodex_id = JNull
    \/ all_personnel_records[j].rolodex_id = JNull

\* email.lower() for the emails of the model
EmailLower(e) == IF e = EmailUpperA THEN EmailA ELSE e

\* The company names candidate i is affiliated with.
CompanyNames(i) ==
    { all_company_relationships[k].company_name :
        k \in { k \in 1..Len(all_company_relationships) :
                  /\ all_company_relationships[k].person_id
                       = all_personnel_records[i].person_id
                  /\ all_company_relationships[k].company_name # JNull } }

\* The fallback signals of the claim: equal emails ignoring case, equal
\* phones, or equal names with overlapping company names.
FallbackSignal(i, j) ==
    LET a == all_personnel_records[i]
        b == all_personnel_records[j]
    IN  \/ a.email # JNull /\ b.email # JNull /\ EmailLower(a.email) = EmailLower(b.email)
        \/ a.mobile # JNull /\ a.mobile = b.mobile
        \/ a.full_name = b.full_name /\ CompanyNames(i) \cap CompanyNames(j) # {}

\* C16 (as amended): there is no fallback matching; two candidates that do
\* not both carry a rolodex_id are never placed in one group, whatever
\* their emails, phones, names and companies are.
C16_NoFallback ==
    Matched =>
      \A i, j \in CandIdx :
        (i # j /\ NotBothIdentified(i, j)) => ~SameGroup(i, j)

\* C16 (as claimed): two candidates that do not both carry a rolodex_id
\* and show a fallback signal are placed in one group.
C16_FallbackLinks ==
    Matched =>
      \A i, j \in CandIdx :
        (i # j /\ NotBothIdentified(i, j) /\ FallbackSignal(i, j)) => SameGroup(i, j)

\* C16's case: find_matches has run on two candidates without rolodex_id
\* whose emails are equal ignoring case, and has kept them apart.
C16_Witness ==
    /\ Matched
    /\ Len(all_personnel_records) = 2
    /\ all_personnel_records[1].rolodex_id = JNull
    /\ all_personnel_records[2].rolodex_id = JNull
    /\ all_personnel_records[1].email = EmailA
    /\ all_personnel_records[2].email = EmailUpperA
    /\ Len(match_groups) = 2

(***************************************************************************)
(* Output order.                                                           *)
(***************************************************************************)
\* A table's rows without the identifiers generated during the run.
WithoutIds(rows) ==
    [ i \in 1..Len(rows) |->
        [ f \in DOMAIN rows[i] \ { "relationship_id", "person_id" } |-> rows[i][f] ] ]

\* C17: the saved person table is in (data_source, full_name) order, and
\* the saved relationship table has its rows in the order any other run
\* over the same records gives them, however that run's generated
\* identifiers compare.
C17_DeterministicOrder ==
    pc = "saved" =>
      /\ \A i, j \in 1..Len(personnel_df) :
           i < j => ~KeyLess(<< JStr(personnel_df[j].data_source), personnel_df[j].full_name >>,
                             << JStr(personnel_df[i].data_source), personnel_df[i].full_name >>)
      /\ \A rank \in UuidOrders({ final_company_relationships[i].person_id :
                                    i \in 1..Len(final_company_relationships) }) :
           WithoutIds(SortedRelationships(final_company_relationships, rank))
             = WithoutIds(companies_df)

(***************************************************************************)
(* Identifiers of merged records.                                          *)
(***************************************************************************)
\* C18: the canonical record of a group of two or more members carries a
\* person_id that no member of the group carries, and old_to_new_person_id
\* sends every member's id, a lone member's too, to the canonical id.
C18_IdsSuperseded ==
    Merged =>
      \A g \in GroupIdx :
        \A k \in 1..Len(match_groups[g]) :
          /\ Len(match_groups[g]) >= 2
               => final_personnel[g].person_id # match_groups[g][k].person_id
          /\ << match_groups[g][k].person_id, final_personnel[g].person_id >>
               \in old_to_new_person_id

(***************************************************************************)
(* The match predicate.                                                    *)
(***************************************************************************)
\* C19: simple_person_match is symmetric; it is true exactly when both
\* candidates carry a non-null rolodex_id and the two are equal as strings;
\* a candidate whose rolodex_id is null is in a group with no other.
C19_MatchByIdentifier ==
    Matched =>
      \A i, j \in CandIdx :
        LET a == all_personnel_records[i]
            b == all_personnel_records[j]
        IN  i # j =>
              /\ simple_person_match(a, b) = simple_person_match(b, a)
              /\ simple_person_match(a, b)
                   <=> /\ a.rolodex_id # JNull
                       /\ b.rolodex_id # JNull
                       /\ PyStr(a.rolodex_id) = PyStr(b.rolodex_id)
              /\ a.rolodex_id = JNull => ~SameGroup(i, j)

(***************************************************************************)
(* The relationship merge on its own: main() from the point where the      *)
(* relationships are remapped, all of one person.  A Bigin record carries  *)
(* no metadata (extract_company_relationships sets the three fields to     *)
(* None); the records come in load order, Rolodex last.                    *)
(***************************************************************************)
\* relationship records handed to merge_company_relationships in SpecRels
MaxRels == 2

Partner == JStr(<< "Partner" >>)

RelRecords ==
    { NewRel(0, 1, cid, Acme, JNull, JNull, JNull, src) :
        cid \in { JNull, JInt(7) }, src \in { "ColourcoatsBigin", "MetaliaBigin" } }
    \cup
    { NewRel(0, 1, JInt(7), Acme, active, JNull, title, "Rolodex") :
        active \in { JNull, JBool(TRUE), JBool(FALSE) }, title \in { JNull, Partner } }

InitRels ==
    \E m \in 0..MaxRels :
      \E f \in [ 1..m -> RelRecords ] :
        /\ \A i \in 1..(m - 1) :
              AlphaRank(f[i].data_source[1]) <= AlphaRank(f[i + 1].data_source[1])
        /\ pc = "relmerge"
        /\ source = Len(sources)
        /\ all_personnel_records = <<>>
        /\ all_company_relationships =
             [ i \in 1..m |-> [ f[i] EXCEPT !.relationship_id = i + 1 ] ]
        /\ match_groups = <<>>
        /\ final_personnel = <<>>
        /\ old_to_new_person_id = {}
        /\ final_company_relationships = <<>>
        /\ next_uuid = m + 2
        /\ raw_data = <<>>
        /\ files = Files(TRUE, TRUE, {}, {})
        /\ config = "file"
        /\ personnel_df = <<>>
        /\ companies_df = <<>>
        /\ G = <<>>
        /\ unification = <<>>
        /\ extraction = <<>>

NextRels == MergeRelationships \/ SaveOutput

SpecRels == InitRels /\ [][NextRels]_vars

\* The first non-null value of field among records, or null.
RECURSIVE FirstNonNull(_, _)
FirstNonNull(records, field) ==
    IF records = <<>> THEN JNull
    ELSE IF Head(records)[field] # JNull THEN Head(records)[field]
    ELSE FirstNonNull(Tail(records), field)

\* C20: in every step of merge_company_relationships, the collapsed record
\* of the input records sharing a key has the is_active, start_date and
\* title_at_company of a Rolodex record of the group when there is one (a
\* false is_active included), and otherwise, field by field, the first
\* non-null value among the group's records in arrival order.
C20_MetadataPreference ==
    [][ (pc = "relmerge" /\ pc' = "done") =>
          \A n \in 1..Len(final_company_relationships') :
            LET collapsed == final_company_relationships'[n]
                group == SelectSeq(all_company_relationships,
                                   LAMBDA r : RelKey(r) = RelKey(collapsed))
                rolodex == SelectSeq(group, LAMBDA r : r.data_source = << "Rolodex" >>)
            IN  IF rolodex # <<>>
                THEN \E i \in 1..Len(rolodex) :
                       \A i_f \in 1..Len(MetadataFields) :
                         collapsed[MetadataFields[i_f]] = rolodex[i][MetadataFields[i_f]]
                ELSE \A i_f \in 1..Len(MetadataFields) :
                       collapsed[MetadataFields[i_f]]
                         = FirstNonNull(group, MetadataFields[i_f]) ]_vars

(***************************************************************************)
(* Wildcard paths as they are written.  A path text is the sequence of its *)
(* dot-parts, each a Key or an At, with Key(Star) where '[*]' stands:      *)
(* 'teams[*].members[0].name' is                                           *)
(* << Key("teams"), Key(Star), At("members", 0), Key("name") >>.           *)
(* The parts before the first '[*]' are plain keys.                        *)
(***************************************************************************)
Star == "[*]"

\* The places of '[*]' in a path text.
Stars(text) == { i \in 1..Len(text) : text[i].key = Star }

\* How safe_get_value reads a path text: parts = path.split('[*]'), the
\* base is parts[0], the field path is parts[1].lstrip('.'); parts[2:] are
\* not read.
ParsePath(text) ==
    IF text = <<>> THEN EmptyPath
    ELSE IF Stars(text) = {} THEN PlainPath(text)
    ELSE LET first == CHOOSE i \in Stars(text) : \A j \in Stars(text) : i <= j
             later == { j \in Stars(text) : j > first }
             stop  == IF later = {} THEN Len(text) + 1
                      ELSE CHOOSE j \in later : \A l \in later : j <= l
             part1 == SubSeq(text, first + 1, stop - 1)
         IN  WildPath([ j \in 1..(first - 1) |-> text[j].key ],
                      IF part1 = <<>> THEN EmptyPath ELSE PlainPath(part1))

Member(name, score) == JMap([ name |-> name, score |-> score ])

WildMembers ==
    { <<>>,
      << Member(Text(<< "Asha" >>), JInt(0)) >>,
      << Member(JNull, JInt(4)), Member(Text(<< "Ravi" >>), JBool(FALSE)) >> }

WildTeams ==
    { JMap([ members |-> JList(ms), size |-> s ]) :
        ms \in WildMembers, s \in { JNull, JInt(0), JInt(2), JBool(FALSE) } }

WildRecords ==
    { JMap([ teams |-> JList(<<>>) ]), JMap([ teams |-> JInt(3) ]) }
    \cup { JMap([ teams |-> JList(<< t >>) ]) : t \in WildTeams }
    \cup { JMap([ teams |-> JList(<< t, u >>) ]) : t \in WildTeams, u \in WildTeams }

WildTexts ==
    { << Key("teams"), Key(Star) >>,
      << Key("teams"), Key(Star), Key("size") >>,
      << Key("teams"), Key(Star), Key("missing") >>,
      << Key("teams"), Key(Star), At("members", 0), Key("name") >>,
      << Key("teams"), Key(Star), At("members", 1), Key("score") >>,
      << Key("teams"), Key(Star), Key("members"), Key(Star) >>,
      << Key("teams"), Key(Star), Key("members"), Key(Star), Key("name") >>,
      << Key("squads"), Key(Star), Key("size") >> }

InitWild ==
    /\ pc = "extract"
    /\ source = 1
    /\ all_personnel_records = <<>>
    /\ all_company_relationships = <<>>
    /\ match_groups = <<>>
    /\ final_personnel = <<>>
    /\ old_to_new_person_id = {}
    /\ final_company_relationships = <<>>
    /\ next_uuid = 1
    /\ raw_data = <<>>
    /\ files = Files(TRUE, TRUE, {}, {})
    /\ config = "file"
    /\ personnel_df = <<>>
    /\ companies_df = <<>>
    /\ G = <<>>
    /\ unification = <<>>
    /\ \E record \in WildRecords, text \in WildTexts :
         extraction = [ record |-> record, path |-> ParsePath(text), text |-> text,
                        returned |-> FALSE, result |-> JNull ]

SpecWild == InitWild /\ [][Extract]_vars

\* What the projection of a path text is said to be: the whole remaining
\* path applied to every element, the results that are not None collected
\* in element order, None for an empty collection or a base that is not a
\* sequence.  (A path without '[*]' resolves as safe_get_value resolves it.)
RECURSIVE Projection(_, _)
RECURSIVE ProjectEach(_, _)
ProjectEach(items, rest) ==
    IF items = <<>> THEN <<>>
    ELSE Only({ (IF val.k # "null" THEN << val >> ELSE <<>>)
                \o ProjectEach(Tail(items), rest) :
                val \in { Projection(Head(items), rest) } })

Projection(current, text) ==
    IF text = <<>> THEN EmptyAsNone(current)
    ELSE IF Stars(text) = {} THEN safe_get_value_at(current, PlainPath(text))
    ELSE LET first == CHOOSE i \in Stars(text) : \A j \in Stars(text) : i <= j
         IN  Only({ IF ~base.found THEN JNull
                    ELSE IF base.value.k # "list" THEN JNull
                    ELSE Only({ IF results # <<>> THEN JList(results) ELSE JNull :
                                results \in { ProjectEach(base.value.items,
                                                SubSeq(text, first + 1, Len(text))) } }) :
                    base \in { NavigateKeys(current,
                                 [ j \in 1..(first - 1) |-> text[j].key ]) } })

\* C21: for a path a.b[*].rest, safe_get_value returns the list, in element
\* order, of every non-null result of applying the whole of rest to each
\* element of the sequence a.b (0 and false included, a further [*] or an
\* index in rest included), and None when that list is empty or a.b is not
\* a sequence.
C21_WildcardProjection ==
    (pc = "extract" /\ extraction.returned) =>
        extraction.result = Projection(extraction.record, extraction.text)

(***************************************************************************)
(* Inferred titles.                                                        *)
(***************************************************************************)
\* The place in title_patterns of the first pattern a raw name begins with,
\* whitespace and more of the name following it; 0 when there is none.
LeadingPattern(name) ==
    IF name.k = "str" /\ Len(name.w) >= 2
    THEN FirstIndex({ p \in 1..Len(title_patterns) :
                        title_patterns[p].pattern = Lower(name.w[1]) })
    ELSE 0

\* C22: in every step of the load loop that makes a candidate of a raw
\* record without an explicit title, the candidate has a title only if a
\* raw name of the record begins with a configured title pattern followed
\* by whitespace, and the title is then the canonical title of the first
\* category having such a pattern; a pattern inside the name gives no title.
C22_LeadingPatternOnly ==
    [][ (pc = "load" /\ Len(all_personnel_records') = Len(all_personnel_records) + 1) =>
          LET raw_record == raw_data'[Len(raw_data')][2]
              candidate == all_personnel_records'[Len(all_personnel_records')]
              names == { safe_get_value(raw_record, f) :
                           f \in { "full_name", "first_name", "last_name" } }
          IN  (safe_get_value(raw_record, "title") = JNull /\ candidate.title # JNull) =>
                \E name \in names :
                  /\ LeadingPattern(name) # 0
                  /\ candidate.title
                       = JStr(<< title_patterns[LeadingPattern(name)].title >>) ]_vars

(***************************************************************************)
(* clean_job_title on the text of a title.  A title is the sequence of its *)
(* pieces: a word "E", the word "at", a space, a tab, and the characters   *)
(* ( ) [ ] |.  The cleaner is applied to a title and then to its own       *)
(* result.                                                                 *)
(***************************************************************************)
\* pieces of a title handed to clean_job_title in SpecClean
MaxTitle == 5

TitlePieces == { "E", "at", " ", "\t", "(", ")", "[", "]", "|" }

IsSpace(c) == c \in { " ", "\t" }

\* title.strip()
RECURSIVE StripText(_)
StripText(s) ==
    IF s = <<>> THEN s
    ELSE IF IsSpace(Head(s)) THEN StripText(Tail(s))
    ELSE IF IsSpace(s[Len(s)]) THEN StripText(SubSeq(s, 1, Len(s) - 1))
    ELSE s

\* title.split(sep)[0]
SplitHead(s, sep) ==
    LET at == { i \in 1..(Len(s) - Len(sep) + 1) : SubSeq(s, i, i + Len(sep) - 1) = sep }
    IN  IF at = {} THEN s
        ELSE SubSeq(s, 1, (CHOOSE i \in at : \A j \in at : i <= j) - 1)

\* re.sub(r'\([^)]*\)', '', title), and the same for [ and ]: from the
\* left, an opening character and everything up to the next closing one.
RECURSIVE RemoveAsides(_, _, _)
RemoveAsides(s, open, close) ==
    IF s = <<>> THEN s
    ELSE IF Head(s) = open /\ \E j \in 2..Len(s) : s[j] = close
    THEN RemoveAsides(SubSeq(s, 1 + (CHOOSE j \in 2..Len(s) :
                                        s[j] = close /\ \A l \in 2..(j - 1) : s[l] # close),
                             Len(s)),
                      open, close)
    ELSE << Head(s) >> \o RemoveAsides(Tail(s), open, close)

\* re.sub(r'\s+', ' ', title)
RECURSIVE CollapseSpace(_)
CollapseSpace(s) ==
    IF s = <<>> THEN s
    ELSE IF IsSpace(Head(s))
    THEN IF Len(s) >= 2 /\ IsSpace(s[2]) THEN CollapseSpace(Tail(s))
         ELSE << " " >> \o CollapseSpace(Tail(s))
    ELSE << Head(s) >> \o CollapseSpace(Tail(s))

\* clean_job_title
clean_job_title_text(title) ==
    IF title.k # "str" \/ title.w = <<>> THEN JNull
    ELSE IF StripText(title.w) = <<>> THEN JNull
    ELSE Only({ IF cleaned # <<>> THEN Text(cleaned) ELSE JNull :
                cleaned \in
                  { StripText(CollapseSpace(
                      RemoveAsides(
                        RemoveAsides(
                          SplitHead(SplitHead(SplitHead(StripText(title.w),
                                                        << " ", "at", " " >>),
                                              << " ", "|" >>),
                                    << "|" >>),
                          "(", ")"),
                        "[", "]"))) } })

InitClean ==
    /\ pc = "clean"
    /\ source = 1
    /\ all_personnel_records = <<>>
    /\ all_company_relationships = <<>>
    /\ match_groups = <<>>
    /\ final_personnel = <<>>
    /\ old_to_new_person_id = {}
    /\ final_company_relationships = <<>>
    /\ next_uuid = 1
    /\ raw_data = <<>>
    /\ files = Files(TRUE, TRUE, {}, {})
    /\ config = "file"
    /\ personnel_df = <<>>
    /\ companies_df = <<>>
    /\ G = <<>>
    /\ unification = <<>>
    /\ \/ extraction = [ title |-> JNull, cleaned |-> <<>> ]
       \/ \E n \in 0..MaxTitle :
            \E s \in [ 1..n -> TitlePieces ] :
              extraction = [ title |-> Text(s), cleaned |-> <<>> ]

\* title = clean_job_title(title), on the given title and then on the
\* result.
CleanTitle ==
    /\ pc = "clean"
    /\ Len(extraction.cleaned) < 2
    /\ extraction' =
         [ extraction EXCEPT !.cleaned =
             Append(extraction.cleaned,
                    clean_job_title_text(IF extraction.cleaned = <<>> THEN extraction.title
                                         ELSE extraction.cleaned[1])) ]
    /\ UNCHANGED << pc, source, all_personnel_records, all_company_relationships,
                    match_groups, final_personnel, old_to_new_person_id,
                    final_company_relationships, next_uuid, raw_data,
                    files, config, personnel_df, companies_df,
                    unification, G >>

SpecClean == InitClean /\ [][CleanTitle]_vars

\* C23: clean_job_title applied to its own result returns that result
\* (None for None); the result holds no ' at ' and no '|'.
C23_Idempotent ==
    (pc = "clean" /\ Len(extraction.cleaned) = 2) =>
        /\ extraction.cleaned[2] = extraction.cleaned[1]
        /\ extraction.cleaned[1].k = "str" =>
             /\ SplitHead(extraction.cleaned[1].w, << " ", "at", " " >>)
                  = extraction.cleaned[1].w
             /\ SplitHead(extraction.cleaned[1].w, << "|" >>) = extraction.cleaned[1].w

(***************************************************************************)
(* unified_Companies.py.  A company name is text, held as the sequence of  *)
(* its pieces: words and parts of words, spaces, punctuation.  'Acme Ltd.' *)
(* is << "Acme", " ", "Ltd", "." >> and 'Zinc Works' is                    *)
(* << "Z", "inc", " ", "Works" >>: where the letters of a legal-entity     *)
(* token occur in a name they are a piece of their own.  Names are strings *)
(* or null.                                                                *)
(*                                                                         *)
(* The field mapping (mapper/Unified_Companies_mapper.json) is not part of *)
(* the sources; here it maps company_name and city, and a raw record holds *)
(* each under the key its cleaned path names: [id, name, city].            *)
(* A unified company is a record over company_id, data_source, the native  *)
(* id keys of all sources and the mapped fields; a key a Python dict lacks *)
(* holds null here (dict.get and the DataFrame read both as None).         *)
(***************************************************************************)
\* safe_get_value of unified_Companies.py, for a plain key of a flat record:
\* return current if current not in [None, '', []] else None
company_safe_get_value(record, path) ==
    LET current == record[path]
    IN  IF current = JNull \/ current = JStr(<<>>) THEN JNull ELSE current

\* The number of whitespace pieces s begins with: what \s* takes.
RECURSIVE LeadingSpace(_)
LeadingSpace(s) ==
    IF s # <<>> /\ IsSpace(Head(s)) THEN 1 + LeadingSpace(Tail(s)) ELSE 0

\* re.sub(r'\s*(optional)?\s*(tokens)\.?', '', name): from the left, each
\* match is cut out; dotted says whether the pattern ends in \.?
RECURSIVE RemoveLegal(_, _, _, _)
RemoveLegal(s, optional, tokens, dotted) ==
    IF s = <<>> THEN s
    ELSE LET a == LeadingSpace(s)
             rest == SubSeq(s, a + 1, Len(s))
             b == IF rest # <<>> /\ Head(rest) \in optional
                  THEN 1 + LeadingSpace(Tail(rest)) ELSE 0
             tok == IF b > 0 /\ Len(rest) > b /\ rest[b + 1] \in tokens THEN a + b + 1
                    ELSE IF rest # <<>> /\ Head(rest) \in tokens THEN a + 1
                    ELSE 0
             end == IF dotted /\ Len(s) > tok /\ s[tok + 1] = "." THEN tok + 1 ELSE tok
         IN  IF tok # 0 THEN RemoveLegal(SubSeq(s, end + 1, Len(s)), optional, tokens, dotted)
             ELSE << Head(s) >> \o RemoveLegal(Tail(s), optional, tokens, dotted)

\* The pieces [^a-z0-9\s] matches.
Punctuation == { ".", "&", "," }

\* normalize_company_name
normalize_company_name(name) ==
    IF ~Truthy(name) THEN <<>>
    ELSE Only({ CollapseSpace(StripText(SelectSeq(
                  RemoveLegal(
                    RemoveLegal(
                      RemoveLegal(
                        RemoveLegal(
                          RemoveLegal(lowered, { "pvt", "private" }, { "ltd", "limited" }, TRUE),
                          {}, { "llc" }, TRUE),
                        {}, { "inc" }, TRUE),
                      {}, { "corp" }, TRUE),
                    {}, { "group" }, FALSE),
                  LAMBDA c : c \notin Punctuation))) :
                lowered \in { CollapseSpace(StripText(
                                [ i \in 1..Len(name.w) |-> Lower(name.w[i]) ])) } })

\* exact_normalized_company_match
exact_normalized_company_match(rec1, rec2) ==
    /\ Truthy(rec1.company_name)
    /\ Truthy(rec2.company_name)
    /\ normalize_company_name(rec1.company_name) = normalize_company_name(rec2.company_name)

\* find_matches' loop from list1[i] on, used2 the positions of list2 taken;
\* exclusive says whether a matched position is added to used2.
RECURSIVE FindFrom(_, _, _, _, _)
FindFrom(list1, list2, i, used2, exclusive) ==
    IF i > Len(list1) THEN <<>>
    ELSE Only({ IF hits = {} THEN FindFrom(list1, list2, i + 1, used2, exclusive)
                ELSE << << i, FirstIndex(hits) >> >>
                     \o FindFrom(list1, list2, i + 1,
                                 IF exclusive THEN used2 \cup { FirstIndex(hits) } ELSE used2,
                                 exclusive) :
                hits \in { { j \in 1..Len(list2) :
                               j \notin used2
                               /\ exact_normalized_company_match(list1[i], list2[j]) } } })

\* find_matches without used2: a record of list2 may be matched again.
find_matches_between_reuse(list1, list2) == FindFrom(list1, list2, 1, {}, FALSE)

\* find_matches(list1, list2, exact_normalized_company_match): pairs
\* << place in list1, place in list2 >>, places counted from 1.
find_matches_between(list1, list2) == FindFrom(list1, list2, 1, {}, TRUE)

\* merge_records(rec1, rec2, id_keys)
merge_records_pair(rec1, rec2, id_keys) ==
    [ field \in DOMAIN rec1 |->
        IF field = "company_id" THEN rec1[field]
        ELSE IF field = "data_source"
        THEN rec1.data_source \o << "+" >> \o rec2.data_source
        ELSE IF field \in id_keys
        THEN IF Truthy(rec2[field]) THEN rec2[field] ELSE rec1[field]
        ELSE IF rec1[field] = JNull /\ rec2[field] # JNull THEN rec2[field]
        ELSE rec1[field] ]

\* f"{source_name.lower().replace('bigin', '_bigin')}_id"
id_key(source_name) ==
    CASE source_name = "ColourcoatsBigin" -> "colourcoats_bigin_id"
      [] source_name = "MetaliaBigin"     -> "metalia_bigin_id"
      [] source_name = "Rolodex"          -> "rolodex_id"

\* source_config['type'] of each source
source_type(source_name) == IF source_name = "Rolodex" THEN "rolodex" ELSE "bigin"

all_id_keys == { id_key(name) : name \in SourceNames }

\* mappings: output field -> the raw key its cleaned path names
company_mappings == [ company_name |-> "name", city |-> "city" ]

\* create_unified_company; company_id is uuid.uuid4(), given as uuid.
create_unified_company(record, source_name, uuid) ==
    [ field \in { "company_id", "data_source" } \cup all_id_keys \cup DOMAIN company_mappings |->
        IF field = "company_id" THEN uuid
        ELSE IF field = "data_source" THEN << source_name >>
        ELSE IF field = id_key(source_name)
        THEN PyStr(company_safe_get_value(record, "id"))
        ELSE IF field \in all_id_keys THEN JNull
        ELSE company_safe_get_value(record, company_mappings[field]) ]

\* The body chain_merge and unify_companies share: match current against
\* next_list, merge the matched pairs in current's order, append the
\* unmatched records of next_list.  [records, matches]
MergeMatched(current, next_list, id_keys) ==
    Only({ Only({ [ records |->
                      [ i \in 1..Len(current) |->
                          IF \E m \in 1..Len(matches) : matches[m][1] = i
                          THEN merge_records_pair(
                                 current[i],
                                 next_list[matches[FirstIndex({ m \in 1..Len(matches) :
                                                                 matches[m][1] = i })][2]],
                                 id_keys)
                          ELSE current[i] ]
                      \o [ k \in 1..Len(unmatched) |-> next_list[unmatched[k]] ],
                    matches |-> matches ] :
                  unmatched \in
                    { SelectSeq([ j \in 1..Len(next_list) |-> j ],
                                LAMBDA j : \A m \in 1..Len(matches) : matches[m][2] # j) } }) :
           matches \in { find_matches_between(current, next_list) } })

\* chain_merge from the list current on; matches collects what each
\* find_matches returned.
RECURSIVE ChainFrom(_, _, _, _)
ChainFrom(current, group_lists, id_keys, matches) ==
    IF group_lists = <<>> THEN [ records |-> current, matches |-> matches ]
    ELSE Only({ ChainFrom(step.records, Tail(group_lists), id_keys,
                          Append(matches, step.matches)) :
                step \in { MergeMatched(current, Head(group_lists), id_keys) } })

\* chain_merge(group_lists, id_keys)
chain_merge(group_lists, id_keys) ==
    IF group_lists = <<>> THEN [ records |-> <<>>, matches |-> <<>> ]
    ELSE ChainFrom(Head(group_lists), Tail(group_lists), id_keys, <<>>)

(***************************************************************************)
(* unify_companies(source_configs).  unification holds its locals:         *)
(*   pc              "start", "types" (in the loop over ordered_types),    *)
(*                   "returned" (no mapper), "save", "saved"               *)
(*   source_configs  the source names in the order they are listed         *)
(*   mapper          whether the mapper file can be loaded                 *)
(*   raw             per source, the records of its file                   *)
(*   type            the place in ordered_types of the type to do next     *)
(*   assigned        whether combined has been assigned (is not None)      *)
(*   combined        the unified companies so far                          *)
(*   matches         what each call of find_matches returned, in order     *)
(*   total_records, df, next_uuid                                          *)
(***************************************************************************)
\* raw company records handed to unify_companies, all sources together
MaxCompanies == 3

ordered_types == << "bigin", "rolodex" >>

AcmeLtd == Text(<< "Acme", " ", "Ltd", "." >>)
ZincWorks == Text(<< "Z", "inc", " ", "Works" >>)
ZWorks == Text(<< "Z", " ", "Works" >>)
Pune == Text(<< "Pune" >>)

\* The raw company records; one with an id gets its place in the file as id.
CompanyRecords ==
    { [ id |-> JInt(1), name |-> Acme, city |-> Pune ],
      [ id |-> JInt(1), name |-> AcmeLtd, city |-> JNull ],
      [ id |-> JInt(1), name |-> ZincWorks, city |-> JNull ],
      [ id |-> JInt(1), name |-> ZWorks, city |-> Pune ],
      [ id |-> JNull, name |-> Acme, city |-> JNull ],
      [ id |-> JInt(1), name |-> JNull, city |-> Pune ] }

\* The file of source name, when the records picks (<< source, record >>
\* each) are spread over the files.
RecordsOf(picks, name) ==
    Only({ [ i \in 1..Len(own) |->
               IF own[i][2].id = JNull THEN own[i][2]
               ELSE [ own[i][2] EXCEPT !.id = JInt(i) ] ] :
           own \in { SelectSeq(picks, LAMBDA pick : pick[1] = name) } })

InitCompanies ==
    /\ pc = "companies"
    /\ source = 1
    /\ all_personnel_records = <<>>
    /\ all_company_relationships = <<>>
    /\ match_groups = <<>>
    /\ final_personnel = <<>>
    /\ old_to_new_person_id = {}
    /\ final_company_relationships = <<>>
    /\ next_uuid = 1
    /\ raw_data = <<>>
    /\ files = Files(TRUE, TRUE, {}, {})
    /\ config = "file"
    /\ personnel_df = <<>>
    /\ companies_df = <<>>
    /\ G = <<>>
    /\ extraction = <<>>
    /\ \E n \in 0..MaxCompanies :
         \E picks \in [ 1..n -> SourceNames \X CompanyRecords ] :
           \E order \in { o \in [ 1..Len(sources) -> SourceNames ] :
                            \A i, j \in 1..Len(sources) : i # j => o[i] # o[j] } :
             unification = [ pc |-> "start",
                             source_configs |-> order,
                             mapper |-> TRUE,
                             raw |-> [ name \in SourceNames |-> RecordsOf(picks, name) ],
                             type |-> 1,
                             assigned |-> FALSE,
                             combined |-> <<>>,
                             matches |-> <<>>,
                             total_records |-> 0,
                             df |-> <<>>,
                             next_uuid |-> 1 ]

\* Load the mapper; return when it cannot be loaded.
LoadMappings ==
    /\ pc = "companies"
    /\ unification.pc = "start"
    /\ unification' = [ unification EXCEPT
                          !.pc = IF unification.mapper THEN "types" ELSE "returned" ]
    /\ UNCHANGED << pc, source, all_personnel_records, all_company_relationships,
                    match_groups, final_personnel, old_to_new_person_id,
                    final_company_relationships, next_uuid, raw_data,
                    files, config, personnel_df, companies_df, extraction, G >>

\* unified = [create_unified_company(rec, mappings, config) for rec in
\* records if rec], for each config of type_configs in turn.
RECURSIVE LoadLists(_, _, _)
LoadLists(type_configs, raw, uuid) ==
    IF type_configs = <<>> THEN <<>>
    ELSE << [ i \in 1..Len(raw[Head(type_configs)]) |->
                create_unified_company(raw[Head(type_configs)][i], Head(type_configs),
                                       uuid + i - 1) ] >>
         \o LoadLists(Tail(type_configs), raw, uuid + Len(raw[Head(type_configs)]))

RECURSIVE SumLen(_)
SumLen(lists) == IF lists = <<>> THEN 0 ELSE Len(Head(lists)) + SumLen(Tail(lists))

\* One pass of "for source_type in ordered_types".
UnifyType ==
    /\ pc = "companies"
    /\ unification.pc = "types"
    /\ \E type_lists \in
          { LoadLists(SelectSeq(unification.source_configs,
                                LAMBDA name : source_type(name) = ordered_types[unification.type]),
                      unification.raw, unification.next_uuid) } :
         \E combined_type \in { chain_merge(type_lists, all_id_keys) } :
           \E step \in { IF type_lists = <<>> \/ ~unification.assigned
                         THEN [ records |-> combined_type.records, matches |-> <<>> ]
                         ELSE MergeMatched(unification.combined, combined_type.records,
                                           all_id_keys) } :
             unification' =
               [ unification EXCEPT
                   !.pc = IF unification.type = Len(ordered_types) THEN "save" ELSE "types",
                   !.type = unification.type + 1,
                   !.assigned = unification.assigned \/ type_lists # <<>>,
                   !.combined = IF type_lists = <<>> THEN unification.combined
                                ELSE step.records,
                   !.matches = unification.matches \o combined_type.matches
                               \o (IF type_lists # <<>> /\ unification.assigned
                                   THEN << step.matches >> ELSE <<>>),
                   !.total_records = unification.total_records + SumLen(type_lists),
                   !.next_uuid = unification.next_uuid + SumLen(type_lists) ]
    /\ UNCHANGED << pc, source, all_personnel_records, all_company_relationships,
                    match_groups, final_personnel, old_to_new_person_id,
                    final_company_relationships, next_uuid, raw_data,
                    files, config, personnel_df, companies_df, extraction, G >>

\* if combined: df.sort_values(['data_source', 'company_name'],
\* na_position='last'), save; else nothing is saved.
SaveCompanies ==
    /\ pc = "companies"
    /\ unification.pc = "save"
    /\ unification' =
         [ unification EXCEPT
             !.pc = "saved",
             !.df = sort_values(unification.combined,
                                [ i \in 1..Len(unification.combined) |->
                                    << JStr(unification.combined[i].data_source),
                                       unification.combined[i].company_name >> ]) ]
    /\ UNCHANGED << pc, source, all_personnel_records, all_company_relationships,
                    match_groups, final_personnel, old_to_new_person_id,
                    final_company_relationships, next_uuid, raw_data,
                    files, config, personnel_df, companies_df, extraction, G >>

NextCompanies == LoadMappings \/ UnifyType \/ SaveCompanies

SpecCompanies == InitCompanies /\ [][NextCompanies]_vars

(***************************************************************************)
(* Properties of the company unification.                                  *)
(***************************************************************************)
Unified == pc = "companies" /\ unification.pc \in { "save", "saved" }

\* The names the raw company records carry.
RawCompanyNames ==
    UNION { { unification.raw[name][i].name : i \in 1..Len(unification.raw[name]) } :
              name \in SourceNames } \ { JNull }

LegalTokens == { "ltd", "limited", "pvt", "private", "llc", "inc", "corp", "group" }

\* s without the words that are a legal-entity token (a closing '.'
\* aside); a word is what stands between two spaces.
RECURSIVE DropLegalWords(_)
DropLegalWords(s) ==
    IF s = <<>> THEN s
    ELSE IF IsSpace(Head(s)) THEN << Head(s) >> \o DropLegalWords(Tail(s))
    ELSE LET k == IF \E i \in 1..Len(s) : IsSpace(s[i])
                  THEN FirstIndex({ i \in 1..Len(s) : IsSpace(s[i]) }) - 1
                  ELSE Len(s)
             core == IF s[k] = "." THEN SubSeq(s, 1, k - 1) ELSE SubSeq(s, 1, k)
         IN  (IF Len(core) = 1 /\ core[1] \in LegalTokens THEN <<>> ELSE SubSeq(s, 1, k))
             \o DropLegalWords(SubSeq(s, k + 1, Len(s)))

\* The canonical form with legal-entity tokens stripped as whole words.
WholeWordCanonical(name) ==
    CollapseSpace(StripText(SelectSeq(
        DropLegalWords([ i \in 1..Len(name.w) |-> Lower(name.w[i]) ]),
        LAMBDA c : c \notin Punctuation)))

\* C24: two raw company names whose canonical forms differ when legal-entity
\* tokens are stripped as whole words only never canonicalize to the same
\* string, and the company_name of every unified company is null or a name
\* as a raw record carries it, never a canonical form.
C24_WholeWordTokens ==
    Unified =>
      /\ \A n1, n2 \in RawCompanyNames :
           WholeWordCanonical(n1) # WholeWordCanonical(n2)
             => normalize_company_name(n1) # normalize_company_name(n2)
      /\ \A i \in 1..Len(unification.combined) :
           unification.combined[i].company_name \in RawCompanyNames \cup { JNull }

\* The sources that contributed a record to a unified company: each
\* contributor's record set the company's native id of that source.
Contributors(company) ==
    { name \in SourceNames : company[id_key(name)] # JNull }

\* C25: whatever the order of source_configs, the data_source of every
\* unified company is the '+'-joined, alphabetically sorted, duplicate-free
\* list of the names of the sources that contributed a record to it.
C25_CompanyDataSource ==
    Unified =>
      \A i \in 1..Len(unification.combined) :
        unification.combined[i].data_source
          = ExpectedDataSource(Contributors(unification.combined[i]))

(***************************************************************************)
(* Runs over contacts with e-mail addresses and phone numbers, all of one  *)
(* person (one rolodex_id), in India.                                      *)
(***************************************************************************)
Contact(email, all_emails, all_phones) ==
    [ Raw(JInt(1), JNull, RohanShah, NoCompanies, NoAccount) EXCEPT
        !.email = email, !.all_emails = all_emails, !.all_phones = all_phones,
        !.country = JStr(<< "India" >>) ]

ContactRaw ==
    { Contact(EmailA, <<>>, <<>>),
      Contact(EmailA, << EmailB >>, <<>>),
      Contact(EmailA, << EmailB, EmailUpperA >>, <<>>),
      Contact(JNull, << EmailB, EmailB >>, <<>>),
      Contact(JNull, <<>>, << JStr(<< "9876543210" >>) >>),
      Contact(JNull, <<>>, << JStr(<< "9876543210" >>), JStr(<< "+919876543210" >>) >>) }

InitContacts == InitFiles(Files(TRUE, TRUE, ContactRaw, ContactRaw))

SpecContacts == InitContacts /\ [][Next]_vars

NoRepeats(items) ==
    \A i, j \in 1..Len(items) : i # j => items[i] # items[j]

\* C26: in every candidate create_unified_record has produced, all_emails
\* and all_phones hold no element twice.
C26_ContactListsDistinct ==
    \A i \in CandIdx :
      /\ NoRepeats(all_personnel_records[i].all_emails)
      /\ NoRepeats(all_personnel_records[i].all_phones)

\* C30: in every candidate and in every merged person, an email that is
\* not null is an element of all_emails.
C30_PrimaryEmailListed ==
    /\ \A i \in CandIdx :
         all_personnel_records[i].email # JNull
           => all_personnel_records[i].email \in Range(all_personnel_records[i].all_emails)
    /\ \A g \in 1..Len(final_personnel) :
         final_personnel[g].email # JNull
           => final_personnel[g].email \in Range(final_personnel[g].all_emails)

\* The native ids the raw records of source name carry, as strings.
NativeIds(name) ==
    { PyStr(company_safe_get_value(unification.raw[name][i], "id")) :
        i \in { i \in 1..Len(unification.raw[name]) :
                  company_safe_get_value(unification.raw[name][i], "id") # JNull } }

\* C28: the native id fields of every unified company, merged or not, hold
\* null or the id of a raw record of that source: a record without an id
\* leaves its native id field null and adds no id to a company it is merged
\* with.
C28_NoPlaceholderId ==
    Unified =>
      \A i \in 1..Len(unification.combined) :
        \A name \in SourceNames :
          unification.combined[i][id_key(name)] \in NativeIds(name) \cup { JNull }

\* C29: in what every find_matches call returned, no place of list1 and no
\* place of list2 occurs in two pairs; and once all types are merged, the
\* unified companies' contributions add up to the records loaded, every raw
\* record's native id stands in exactly one unified company, and no
\* data_source names a source twice: every unified company combines at most
\* one record of each source, and every raw record is part of exactly one.
C29_OneToOne ==
    pc = "companies" =>
      /\ \A k \in 1..Len(unification.matches) :
           \A a, b \in 1..Len(unification.matches[k]) :
             a # b => /\ unification.matches[k][a][1] # unification.matches[k][b][1]
                      /\ unification.matches[k][a][2] # unification.matches[k][b][2]
      /\ Unified =>
           /\ Cardinality({ << i, name >> \in (1..Len(unification.combined)) \X SourceNames :
                              name \in Contributors(unification.combined[i]) })
                = unification.total_records
           /\ \A name \in SourceNames :
                \A id \in NativeIds(name) :
                  Cardinality({ i \in 1..Len(unification.combined) :
                                  unification.combined[i][id_key(name)] = id }) = 1
           /\ \A i \in 1..Len(unification.combined) :
                /\ NoRepeats(PlusSplit(unification.combined[i].data_source))
                /\ { piece[1] : piece \in Range(PlusSplit(unification.combined[i].data_source)) }
                     = Contributors(unification.combined[i])

\* C29's case: two ColourcoatsBigin records with the same canonical name,
\* both with an id, and one Rolodex record of that name, saved as two
\* companies: one combining a record of each source, one of ColourcoatsBigin
\* alone.
C29_Witness ==
    /\ pc = "companies"
    /\ unification.pc = "saved"
    /\ Len(unification.raw["ColourcoatsBigin"]) = 2
    /\ Len(unification.raw["Rolodex"]) = 1
    /\ unification.raw["ColourcoatsBigin"][1].name = Acme
    /\ unification.raw["ColourcoatsBigin"][2].name = AcmeLtd
    /\ unification.raw["Rolodex"][1].name = Acme
    /\ NativeIds("ColourcoatsBigin") = { JStr(<< "1" >>), JStr(<< "2" >>) }
    /\ Len(unification.df) = 2
    /\ \E i, j \in 1..2 :
         /\ Contributors(unification.df[i]) = { "ColourcoatsBigin", "Rolodex" }
         /\ unification.df[i].colourcoats_bigin_id = JStr(<< "1" >>)
         /\ Contributors(unification.df[j]) = { "ColourcoatsBigin" }
         /\ unification.df[j].colourcoats_bigin_id = JStr(<< "2" >>)

(***************************************************************************)
(* find_matches with its pairwise step spread over workers: the pairs of   *)
(* candidates are evaluated one at a time in any order, a worker hands the *)
(* two records to simple_person_match in either order, each matching pair  *)
(* is added to the one graph as it is found, and the components are        *)
(* computed once every pair was evaluated.                                 *)
(***************************************************************************)
ParallelIds == { JNull, JInt(0), JInt(1), JInt(2), JStr(<< "1" >>) }

InitParallel ==
    \E m \in 0..MaxCands :
      \E f \in [ 1..m -> ParallelIds ] :
        InitLoaded([ i \in 1..m |->
            Cand(i, IF f[i].k = "int" THEN "Rolodex" ELSE "ColourcoatsBigin",
                 f[i], << "Rohan", "Shah" >>, JNull, <<>>) ])

\* for i in range(len(records)): for j in range(i + 1, len(records))
Pairs(records) ==
    { e \in (1..Len(records)) \X (1..Len(records)) : e[1] < e[2] }

\* G = nx.Graph(); G.add_node(i) for every record
AddNodes ==
    /\ pc = "match"
    /\ G' = [ records |-> all_personnel_records, edges |-> <<>>, evaluated |-> {} ]
    /\ pc' = "pairs"
    /\ UNCHANGED << source, all_personnel_records, all_company_relationships,
                    match_groups, final_personnel, old_to_new_person_id,
                    final_company_relationships, next_uuid, raw_data >>
    /\ UNCHANGED << files, config, personnel_df, companies_df, extraction, unification >>

\* if simple_person_match(records[i], records[j]): G.add_edge(i, j), for one
\* pair not evaluated yet, its two records in either order.  The graph is
\* undirected: add_edge(j, i) adds the edge add_edge(i, j) adds.
EvaluatePair ==
    /\ pc = "pairs"
    /\ \E e \in Pairs(G.records) \ G.evaluated :
         \E swapped \in BOOLEAN :
           \E hit \in { IF swapped
                        THEN simple_person_match(G.records[e[2]], G.records[e[1]])
                        ELSE simple_person_match(G.records[e[1]], G.records[e[2]]) } :
             G' = [ G EXCEPT !.evaluated = @ \cup { e },
                             !.edges = IF hit THEN Append(@, e) ELSE @ ]
    /\ UNCHANGED << pc, source, all_personnel_records, all_company_relationships,
                    match_groups, final_personnel, old_to_new_person_id,
                    final_company_relationships, next_uuid, raw_data >>
    /\ UNCHANGED << files, config, personnel_df, companies_df, extraction, unification >>

\* for component in nx.connected_components(G): groups.append([records[idx]
\* for idx in component]), once every pair was evaluated
Components ==
    /\ pc = "pairs"
    /\ G.evaluated = Pairs(G.records)
    /\ \E comps \in { ConnectedComponents(Range(G.edges), Len(G.records), 1, {}) } :
         match_groups' =
           [ g \in 1..Len(comps) |->
               Only({ [ k \in 1..Len(idx) |-> G.records[idx[k]] ] :
                      idx \in { SetIterOrder(comps[g]) } }) ]
    /\ pc' = "merge"
    /\ UNCHANGED << source, all_personnel_records, all_company_relationships,
                    final_personnel, old_to_new_person_id,
                    final_company_relationships, next_uuid, raw_data >>
    /\ UNCHANGED << files, config, personnel_df, companies_df, extraction,
                    unification, G >>

NextParallel == AddNodes \/ EvaluatePair \/ Components

SpecParallel == InitParallel /\ [][NextParallel]_vars

\* C27: whatever the order in which the pairs of candidates were evaluated
\* and the match edges added to the graph, once all pairs are evaluated the
\* groups computed from the graph are the groups find_matches returns for
\* the candidate list, and the candidate list is the one that was handed in.
C27_OrderIndependent ==
    pc = "merge" =>
        /\ match_groups = find_matches(all_personnel_records)
        /\ all_personnel_records = G.records

\* Three candidates of one person whose edges were added in another order
\* than the nested loops add them: the pair of the second and the third
\* candidate first.
C27_Witness ==
    /\ pc = "merge"
    /\ Len(G.edges) = 3
    /\ G.edges[1] = << 2, 3 >>
    /\ Len(match_groups) = 1
    /\ Len(match_groups[1]) = 3

====
